---- MODULE Spec2Model ----
(***************************************************************************)
(* FitDuo backend: the in-memory matchmaking queue                         *)
(* (backend/app/services/matchmaking.py, class MatchmakingQueue).          *)
(*                                                                         *)
(* The service runs on one asyncio event loop.  A coroutine runs without   *)
(* interruption until it awaits something that is not ready: a lock that   *)
(* is held, a sleep, a channel send.  Every action below is one such run   *)
(* of one coroutine.  asyncio.Lock is not reentrant: a coroutine that      *)
(* awaits a lock it already holds waits for a release that cannot come.    *)
(***************************************************************************)
EXTENDS Integers, Sequences, FiniteSets, TLC

\* ----------------------------------------------------------------- bounds
NumPlayers == 2        \* players of the whole service are 1..NumPlayers
MaxTasks == 2          \* successful add_player calls in one behaviour of the service
MaxPolls == 1          \* sleeps of the wait-for-channel loop (30 in the code)
MaxQueue == 4          \* players, and successful adds, when only the queue is called
MaxReps == 1           \* repCount of a REP_INCREMENT is in 0..MaxReps
MaxRoundsWon == 2      \* no ROUND_END is handled that would take a rounds_won above this
MaxRound == 2
MaxWebsockets == 2          \* no round is started that would take current_round above this

\* -------------------------------------------------------------- constants
Free == 0              \* an asyncio.Lock nobody holds
NoExercise == 0        \* exercise_id: Optional[int] = None
NoGame == 0            \* match_result is None
CleanupTask == -1      \* the cleanup task, as the holder of a lock
NoPlayer == 0          \* winner_id = None, exclude_player = None
PlayerA == 1           \* player_a_id of the game that is played
PlayerB == 2           \* player_b_id of the game that is played
Outsider == 3          \* a player id that holds neither seat
AnExercise == 1        \* the id of a row of the exercise table
MissingExercise == 2   \* an id the exercise table has no row for
OtherGame == 2         \* a game id the game_session table has no row for
NoWebsocket == 0       \* no channel

Players == 1 .. NumPlayers
\* What a player may ask for when joining: no exercise, or an exercise.  The
\* ids are primary keys of the exercise table (1, 2, ...); nothing in the queue
\* looks inside them, so each player's one possible choice carries the
\* player's own number, which tells the two players' choices apart.
Preferences(player_id) == {NoExercise, player_id}

VARIABLES
    queue,                  \* self.queue: the QueuedPlayer records in insertion order
    matchmaking_websockets, \* self.matchmaking_websockets: players with a channel
    lock,                   \* self.lock: Free or the task holding it
    matching_lock,          \* self.matching_lock: Free or the task holding it
    tasks,                  \* the wait_for_websocket_then_match tasks, in creation order
    matches,                \* the GameSession rows committed by _create_match
    sent,                   \* the MATCH_FOUND messages delivered, in order
    ret,                    \* what the last recorded queue call returned
    expired,                \* how many joins are older than self.queue_timeout
    sweep,                  \* the start_matchmaking_cleanup_task task
    game_sessions,          \* the GameSession table the game handlers read and write
    active_connections,     \* ConnectionManager.active_connections
    player_ready_status,    \* ConnectionManager.player_ready_status
    message,                \* the inbound message handled last
    broadcasts,             \* what the handler of that message sent, in order
    websockets,             \* the channels opened so far, each with its endpoint
    call,                   \* the call on the manager or the endpoint made last
    deliveries,             \* the send_json calls that call made, in order
    handlers,               \* each player's endpoint coroutine: where it is suspended
    inbox,                  \* what each player's client has been sent, and has sent
    entries                 \* the key order of the game's dict in active_connections

queue_vars == <<queue, matchmaking_websockets, lock, matching_lock, tasks, matches, sent, ret>>

sweep_vars == <<expired, sweep>>

channel_vars == <<websockets, call, deliveries>>

handler_vars == <<handlers, inbox, entries>>

game_vars ==
    <<game_sessions, active_connections, player_ready_status, message, broadcasts, channel_vars,
      handler_vars>>

vars == <<queue_vars, sweep_vars, game_vars>>

\* ------------------------------------------------------------- the queue
QueueIds(q) == {q[i].player_id : i \in DOMAIN q}

InQueue(p) == p \in QueueIds(queue)

\* Index of player p in q (list(self.queue.items()) enumerated), 0 if absent.
IndexOf(q, p) ==
    IF \E i \in DOMAIN q : q[i].player_id = p
    THEN CHOOSE i \in DOMAIN q : q[i].player_id = p /\ \A j \in 1 .. (i - 1) : q[j].player_id # p
    ELSE 0

\* OrderedDict.__setitem__: a new key goes to the tail, an existing key keeps
\* its place and takes the new value.
OrderedDictSet(q, rec) ==
    IF rec.player_id \in QueueIds(q)
    THEN [i \in DOMAIN q |-> IF q[i].player_id = rec.player_id THEN rec ELSE q[i]]
    ELSE Append(q, rec)

\* OrderedDict.__delitem__: the other entries keep their order.
OrderedDictDel(q, p) == SelectSeq(q, LAMBDA r : r.player_id # p)

\* A lock that lets everybody in.
AcquirableAlways(holder) == TRUE

\* async with <lock>: goes through at once exactly when nobody holds the lock.
Acquirable(holder) == holder = Free

\* Python truthiness of an Optional[int].
Truthy(x) == x # NoExercise /\ x # 0

Max(a, b) == IF a >= b THEN a ELSE b

\* ------------------------------------------------------------------ Init
Init ==
    /\ queue = << >>
    /\ matchmaking_websockets = {}
    /\ lock = Free
    /\ matching_lock = Free
    /\ tasks = << >>
    /\ matches = << >>
    /\ sent = << >>
    /\ ret = [op |-> "none"]
    /\ expired = 0
    /\ sweep = [pc |-> "sleep", stale_players |-> << >>]
    /\ game_sessions = << >>
    /\ active_connections = << >>
    /\ player_ready_status = << >>
    /\ message = [msg |-> [type |-> "none"], game_id |-> NoGame, player_id |-> NoPlayer]
    /\ broadcasts = << >>
    /\ websockets = << >>
    /\ call = [op |-> "none"]
    /\ deliveries = << >>
    /\ handlers = << >>
    /\ inbox = << >>
    /\ entries = << >>


\* ------------------------------------------------------- queue operations
\* add_player: the check and the insert happen under self.lock; a player who
\* is already queued is refused.  A new player gets a QueuedPlayer at the tail
\* and a task that waits for the player's channel and then tries to match.
\* queued_at is the arrival stamp of the entry (the number of the add).
\* add_player without the membership check.
add_player_returns_unchecked(player_id) == TRUE

add_player_returns(player_id) == ~InQueue(player_id)

add_player(player_id, exercise_id) ==
    /\ Acquirable(lock)
    /\ IF ~add_player_returns(player_id)
       THEN UNCHANGED <<queue, tasks>>
       ELSE /\ queue' = OrderedDictSet(queue, [player_id |-> player_id,
                                               exercise_id |-> exercise_id,
                                               queued_at |-> Len(tasks) + 1])
            /\ tasks' = Append(tasks, [player_id |-> player_id, pc |-> "poll",
                                       waited |-> 0, attempts |-> 0, game_id |-> NoGame])
    /\ UNCHANGED <<matchmaking_websockets, lock, matching_lock, matches, sent>>

\* remove_player: delete under self.lock; False when the player is not queued.
remove_player_returns(player_id) == InQueue(player_id)

remove_player(player_id) ==
    /\ Acquirable(lock)
    /\ queue' = IF remove_player_returns(player_id)
                THEN OrderedDictDel(queue, player_id)
                ELSE queue
    /\ UNCHANGED <<matchmaking_websockets, lock, matching_lock, tasks, matches, sent>>

\* get_queue_status reporting the 0-based index as the position.
QueueStatusZeroBased(q, p) ==
    IF p \notin QueueIds(q)
    THEN [in_queue |-> FALSE, queue_position |-> 0, estimated_wait |-> 0]
    ELSE LET player_position == IndexOf(q, p) - 1
             pairs_ahead == player_position \div 2
         IN  [in_queue |-> TRUE,
              queue_position |-> player_position,
              estimated_wait |-> IF player_position = 0 THEN 30
                                 ELSE IF player_position = 1 THEN 5
                                 ELSE Max(10, pairs_ahead * 30)]

\* get_queue_status halving the reported position instead of the index.
QueueStatusHalfPosition(q, p) ==
    IF p \notin QueueIds(q)
    THEN [in_queue |-> FALSE, queue_position |-> 0, estimated_wait |-> 0]
    ELSE LET player_position == IndexOf(q, p) - 1
             queue_position == player_position + 1
             pairs_ahead == queue_position \div 2
         IN  [in_queue |-> TRUE,
              queue_position |-> queue_position,
              estimated_wait |-> IF player_position = 0 THEN 30
                                 ELSE IF player_position = 1 THEN 5
                                 ELSE Max(10, pairs_ahead * 30)]

\* The dictionary get_queue_status returns for player p on queue q.
QueueStatus(q, p) ==
    IF p \notin QueueIds(q)
    THEN [in_queue |-> FALSE, queue_position |-> 0, estimated_wait |-> 0]
    ELSE LET player_position == IndexOf(q, p) - 1
             pairs_ahead == player_position \div 2
         IN  [in_queue |-> TRUE,
              queue_position |-> player_position + 1,
              estimated_wait |-> IF player_position = 0 THEN 30
                                 ELSE IF player_position = 1 THEN 5
                                 ELSE Max(10, pairs_ahead * 30)]

\* get_queue_status reads the queue under self.lock and changes nothing.
get_queue_status(player_id) ==
    /\ Acquirable(lock)
    /\ UNCHANGED <<queue, matchmaking_websockets, lock, matching_lock, tasks, matches, sent>>

\* ------------------------------------------------- matchmaking channels
register_matchmaking_websocket(player_id) ==
    /\ matchmaking_websockets' = matchmaking_websockets \cup {player_id}
    /\ UNCHANGED <<queue, lock, matching_lock, tasks, matches, sent, ret>>

unregister_matchmaking_websocket(player_id) ==
    /\ player_id \in matchmaking_websockets
    /\ matchmaking_websockets' = matchmaking_websockets \ {player_id}
    /\ UNCHANGED <<queue, lock, matching_lock, tasks, matches, sent, ret>>

\* ------------------------------------------------------ the match attempt
SetTask(t, f) == [tasks EXCEPT ![t] = f]

\* Where a task goes when _try_match_and_notify has returned: both call sites
\* of wait_for_websocket_then_match end the task.
AfterAttempt(task) == "done"

\* The two preferences taken in the other order.
ExerciseChoiceSecondFirst(player1, player2) ==
    IF Truthy(player2.exercise_id) THEN player2.exercise_id ELSE player1.exercise_id

\* exercise_id = player1.exercise_id or player2.exercise_id
ExerciseChoice(player1, player2) ==
    IF Truthy(player1.exercise_id) THEN player1.exercise_id ELSE player2.exercise_id

\* The GameSession row _create_match commits for player1 and player2.
GameSession(player1, player2) ==
    [player_a_id |-> player1.player_id,
     player_b_id |-> player2.player_id,
     current_exercise_id |-> ExerciseChoice(player1, player2),
     a_queued_at |-> player1.queued_at,
     b_queued_at |-> player2.queued_at]

\* _try_match_player taking the first player out of the queue before the
\* commit, and not putting the player back when the commit fails.
try_match_player_remove_early(t, task, commit_ok) ==
    LET player_id == task.player_id
        first_player == queue[1]
        second_player == queue[2]
    IN  IF player_id \notin QueueIds(queue) \/ Len(queue) < 2
        THEN /\ tasks' = SetTask(t, [task EXCEPT !.pc = AfterAttempt(task)])
             /\ lock' = Free
             /\ matching_lock' = Free
             /\ UNCHANGED <<queue, matches>>
        ELSE IF ~commit_ok
        THEN /\ tasks' = SetTask(t, [task EXCEPT !.pc = AfterAttempt(task)])
             /\ queue' = OrderedDictDel(queue, first_player.player_id)
             /\ lock' = Free
             /\ matching_lock' = Free
             /\ UNCHANGED matches
        ELSE /\ matches' = Append(matches, GameSession(first_player, second_player))
             /\ tasks' = SetTask(t, [task EXCEPT !.pc = "remove_player",
                                                 !.game_id = Len(matches) + 1])
             /\ lock' = t
             /\ matching_lock' = t
             /\ UNCHANGED queue

\* _try_match_player giving up on a player who is alone in the queue: the
\* player's entry is dropped when fewer than two players are queued.
try_match_player_drops_lonely(t, task, commit_ok) ==
    LET player_id == task.player_id
        first_player == queue[1]
        second_player == queue[2]
    IN  IF player_id \notin QueueIds(queue) \/ Len(queue) < 2 \/ ~commit_ok
        THEN /\ tasks' = SetTask(t, [task EXCEPT !.pc = AfterAttempt(task)])
             /\ lock' = Free
             /\ matching_lock' = Free
             /\ queue' = IF Len(queue) < 2 THEN OrderedDictDel(queue, player_id) ELSE queue
             /\ UNCHANGED matches
        ELSE /\ matches' = Append(matches, GameSession(first_player, second_player))
             /\ tasks' = SetTask(t, [task EXCEPT !.pc = "remove_player",
                                                 !.game_id = Len(matches) + 1])
             /\ lock' = t
             /\ matching_lock' = t
             /\ UNCHANGED queue

\* _try_match_player once the task has both locks: the two checks, then
\* _create_match for the two players at the head.  commit_ok is whether
\* session.commit() goes through; when it does not, the except branch rolls
\* back and None is returned.  A committed match leaves the task inside
\* _create_match, awaiting the self.lock of remove_player(player1) with
\* self.lock still its own.
try_match_player(t, task, commit_ok) ==
    LET player_id == task.player_id
        first_player == queue[1]
        second_player == queue[2]
    IN  IF player_id \notin QueueIds(queue) \/ Len(queue) < 2 \/ ~commit_ok
        THEN /\ tasks' = SetTask(t, [task EXCEPT !.pc = AfterAttempt(task)])
             /\ lock' = Free
             /\ matching_lock' = Free
             /\ UNCHANGED <<queue, matches>>
        ELSE /\ matches' = Append(matches, GameSession(first_player, second_player))
             /\ tasks' = SetTask(t, [task EXCEPT !.pc = "remove_player",
                                                 !.game_id = Len(matches) + 1])
             /\ lock' = t
             /\ matching_lock' = t
             /\ UNCHANGED queue

\* async with self.lock, inside async with self.matching_lock: the task goes
\* on when self.lock is free and otherwise waits for it with the matching
\* lock in hand.
await_lock(t, task, commit_ok) ==
    IF Acquirable(lock)
    THEN try_match_player(t, task, commit_ok)
    ELSE /\ tasks' = SetTask(t, [task EXCEPT !.pc = "lock"])
         /\ matching_lock' = t
         /\ UNCHANGED <<queue, lock, matches>>

\* async with self.matching_lock, the first line of _try_match_player.
await_matching_lock(t, task, commit_ok) ==
    IF Acquirable(matching_lock)
    THEN await_lock(t, task, commit_ok)
    ELSE /\ tasks' = SetTask(t, [task EXCEPT !.pc = "matching_lock"])
         /\ UNCHANGED <<queue, lock, matching_lock, matches>>

\* The rest of _create_match, once remove_player(player1) is given self.lock:
\* both players leave the queue and the match info goes back to
\* _try_match_and_notify, which leaves both locks.
create_match_remove(t) ==
    LET game_session == matches[tasks[t].game_id]
    IN  /\ queue' = OrderedDictDel(OrderedDictDel(queue, game_session.player_a_id),
                                   game_session.player_b_id)
        /\ tasks' = SetTask(t, [tasks[t] EXCEPT !.pc = "notify_player1"])
        /\ lock' = Free
        /\ matching_lock' = Free
        /\ UNCHANGED matches

\* notify_match_found: MATCH_FOUND to the player's channel when one is
\* registered and the send goes through; otherwise only a log line.
notify_match_found(player_id, game_id, send_ok) ==
    IF player_id \in matchmaking_websockets /\ send_ok
    THEN Append(sent, [type |-> "MATCH_FOUND", to |-> player_id, game_id |-> game_id])
    ELSE sent

\* A loop that never waits.
StopsWaitingAtOnce(task) == TRUE

\* Whether the polling loop stops waiting: the channel is there, or the cap
\* is reached.
StopsWaiting(task) ==
    task.waited >= MaxPolls \/ task.player_id \in matchmaking_websockets

\* waited is a local of the polling loop: it is dropped when the loop is left.
\* One run of task t, from the await it is suspended in to the next await
\* that is not ready.  io_ok is the outcome of the external call the run
\* makes (the commit, or the channel send).
\*   poll            in asyncio.sleep of the polling loop (or not yet started)
\*   matching_lock   awaiting self.matching_lock
\*   lock            awaiting self.lock, holding self.matching_lock
\*   remove_player   in _create_match, awaiting self.lock for remove_player
\*   notify_player1, notify_player2   about to send MATCH_FOUND
wait_for_websocket_then_match(t, io_ok) ==
    /\ t \in DOMAIN tasks
    /\ CASE tasks[t].pc = "poll" ->
                /\ IF StopsWaiting(tasks[t])
                   THEN await_matching_lock(t, [tasks[t] EXCEPT !.attempts = @ + 1, !.waited = 0], io_ok)
                   ELSE /\ tasks' = SetTask(t, [tasks[t] EXCEPT !.waited = @ + 1])
                        /\ UNCHANGED <<queue, lock, matching_lock, matches>>
                /\ UNCHANGED sent
         [] tasks[t].pc = "matching_lock" ->
                /\ Acquirable(matching_lock)
                /\ await_lock(t, tasks[t], io_ok)
                /\ UNCHANGED sent
         [] tasks[t].pc = "lock" ->
                /\ Acquirable(lock)
                /\ try_match_player(t, tasks[t], io_ok)
                /\ UNCHANGED sent
         [] tasks[t].pc = "remove_player" ->
                /\ Acquirable(lock)
                /\ create_match_remove(t)
                /\ UNCHANGED sent
         [] tasks[t].pc = "notify_player1" ->
                /\ sent' = notify_match_found(matches[tasks[t].game_id].player_a_id,
                                              tasks[t].game_id, io_ok)
                /\ tasks' = SetTask(t, [tasks[t] EXCEPT !.pc = "notify_player2"])
                /\ UNCHANGED <<queue, lock, matching_lock, matches>>
         [] tasks[t].pc = "notify_player2" ->
                /\ sent' = notify_match_found(matches[tasks[t].game_id].player_b_id,
                                              tasks[t].game_id, io_ok)
                /\ tasks' = SetTask(t, [tasks[t] EXCEPT !.pc = AfterAttempt(tasks[t])])
                /\ UNCHANGED <<queue, lock, matching_lock, matches>>
         [] tasks[t].pc = "done" -> FALSE
    /\ UNCHANGED <<matchmaking_websockets, ret, sweep_vars, game_vars>>

\* ------------------------------------------------------- specifications
TaskIds == 1 .. MaxTasks

\* The whole service: calls, channel registrations and the scheduled tasks.
\* The calls' return values are not recorded in ret.
Next ==
    /\ \/ \E p \in Players : \E e \in Preferences(p) :
                Len(tasks) < MaxTasks /\ add_player(p, e) /\ UNCHANGED ret
       \/ \E p \in Players : remove_player(p) /\ UNCHANGED ret
       \/ \E p \in Players : get_queue_status(p) /\ UNCHANGED ret
       \/ \E p \in Players : register_matchmaking_websocket(p)
       \/ \E p \in Players : unregister_matchmaking_websocket(p)
       \/ \E t \in TaskIds, io_ok \in BOOLEAN : wait_for_websocket_then_match(t, io_ok)
    /\ UNCHANGED <<sweep_vars, game_vars>>

Spec == Init /\ [][Next]_vars

\* The event loop runs every task that is ready: a task that can take a step
\* is not left waiting forever.  Calls and channel registrations come from
\* outside and may stop coming.
Fairness == \A t \in TaskIds : WF_vars(\E io_ok \in BOOLEAN : wait_for_websocket_then_match(t, io_ok))

FairSpec == Spec /\ Fairness

\* The queue under calls alone, while every scheduled task is still in its
\* first sleep; ret records what each call returned.  No call's result depends
\* on the preference, so a first join carries none; a repeated join carries
\* either value, so that an overwritten entry would differ from the old one.
QueuePlayers == 1 .. MaxQueue

QueueNext ==
    /\ \/ \E p \in QueuePlayers :
          \E e \in (IF InQueue(p) THEN Preferences(p) ELSE {NoExercise}) :
               /\ Len(tasks) < MaxQueue
               /\ add_player(p, e)
               /\ ret' = [op |-> "add_player", player_id |-> p, result |-> add_player_returns(p)]
       \/ \E p \in QueuePlayers :
               /\ remove_player(p)
               /\ ret' = [op |-> "remove_player", player_id |-> p, result |-> remove_player_returns(p)]
       \/ \E p \in QueuePlayers :
               /\ get_queue_status(p)
               /\ ret' = [op |-> "get_queue_status", player_id |-> p, result |-> QueueStatus(queue, p)]
    /\ UNCHANGED <<sweep_vars, game_vars>>

QueueSpec == Init /\ [][QueueNext]_vars

\* No storage failure and nobody leaving: joins, channel registrations and the
\* tasks, every commit going through.
FifoNext ==
    /\ \/ \E p \in Players : \E e \in Preferences(p) :
               Len(tasks) < MaxTasks /\ add_player(p, e) /\ UNCHANGED ret
       \/ \E p \in Players : register_matchmaking_websocket(p)
       \/ \E p \in Players : unregister_matchmaking_websocket(p)
       \/ \E t \in TaskIds : wait_for_websocket_then_match(t, TRUE)
    /\ UNCHANGED <<sweep_vars, game_vars>>

FifoSpec ==
    /\ Init /\ [][FifoNext]_vars
    /\ \A t \in TaskIds : WF_vars(wait_for_websocket_then_match(t, TRUE))

\* ================================================================ claims
Pc(t) == tasks[t].pc

\* The tasks that are inside the matching lock's critical section.
Deciding == {t \in DOMAIN tasks : Pc(t) \in {"lock", "remove_player"}}

\* The queue entries (by arrival stamp) a match record holds.
Entries(m) == {m.a_queued_at, m.b_queued_at}

\* C1: no queue entry is in two match records, no two match records share an
\* entry or a player's entry twice, and at most one task is inside the
\* matching lock at any time.
C1_MatchExclusive ==
    /\ \A i, j \in DOMAIN matches : i # j => Entries(matches[i]) \cap Entries(matches[j]) = {}
    /\ \A i \in DOMAIN matches : matches[i].a_queued_at # matches[i].b_queued_at
    /\ Cardinality(Deciding) <= 1

\* A match has been committed while another task's attempt waits for the
\* matching lock.
C1_Witness ==
    /\ Len(matches) = 1
    /\ \E t, u \in DOMAIN tasks : Pc(t) = "remove_player" /\ Pc(u) = "matching_lock"

\* C2: a player id is in the queue at most once, and an add_player for a
\* queued player returns false and leaves the queue as it was.
C2_IdempotentAdd ==
    /\ [](\A i, j \in DOMAIN queue : i # j => queue[i].player_id # queue[j].player_id)
    /\ [][\A p \in QueuePlayers :
            (InQueue(p) /\ ret'.op = "add_player" /\ ret'.player_id = p)
                => (ret'.result = FALSE /\ queue' = queue)]_vars

\* An add for a queued player has just been refused, with another player queued too.
C2_Witness ==
    /\ ret.op = "add_player"
    /\ ret.result = FALSE
    /\ InQueue(ret.player_id)
    /\ Len(queue) >= 2

\* C3 (as claimed): matches are made in arrival order, and whenever two or more
\* players are queued the attempts bring the queue below two.
C3_FifoPairing ==
    /\ [](\A i \in DOMAIN matches :
            /\ matches[i].a_queued_at < matches[i].b_queued_at
            /\ \A j \in DOMAIN matches : i < j => matches[i].b_queued_at < matches[j].a_queued_at)
    /\ (Len(queue) >= 2) ~> (Len(queue) < 2)

\* C4 (as claimed): the task that holds self.lock can always take its next
\* step, so the lock is released again.
C4_LockHolderRuns ==
    lock # Free => ENABLED (\E io_ok \in BOOLEAN : wait_for_websocket_then_match(lock, io_ok))

\* C5: a step of a match attempt leaves the queue exactly as it was, or takes
\* out exactly the two players of the match that attempt committed; a step that
\* ends an attempt without a committed match leaves the queue as it was.
C5_Transactional ==
    [][\A t \in DOMAIN tasks :
          tasks'[t] # tasks[t] =>
             \/ queue' = queue
             \/ /\ tasks[t].game_id # NoGame
                /\ LET m == matches[tasks[t].game_id]
                   IN  /\ QueueIds(queue') = QueueIds(queue) \ {m.player_a_id, m.player_b_id}
                       /\ queue' = OrderedDictDel(OrderedDictDel(queue, m.player_a_id),
                                                  m.player_b_id)]_vars

\* Both attempts have ended, the later one with both players queued, and no
\* match was committed: its commit failed, and both players are still queued
\* in their order.
C5_Witness ==
    /\ Len(tasks) = 2
    /\ \A t \in DOMAIN tasks : Pc(t) = "done"
    /\ matches = << >>
    /\ Len(queue) = 2
    /\ queue[1].queued_at = 1
    /\ queue[2].queued_at = 2

\* The committed match g has been followed through: both players are out of the
\* queue and each of them that has a channel has its MATCH_FOUND for game g.
Delivered(g) ==
    LET m == matches[g]
    IN  /\ m.player_a_id \notin QueueIds(queue)
        /\ m.player_b_id \notin QueueIds(queue)
        /\ \A p \in {m.player_a_id, m.player_b_id} \cap matchmaking_websockets :
              \E k \in DOMAIN sent : sent[k].to = p /\ sent[k].game_id = g

\* C6 (as claimed): every committed match is followed by the removal of both
\* players and by MATCH_FOUND to each of them that has a channel.
C6_MatchDelivered ==
    \A g \in TaskIds : (Len(matches) >= g) ~> (Len(matches) >= g /\ Delivered(g))

Earlier(p) ==
    {i \in DOMAIN queue : queue[i].queued_at < queue[IndexOf(queue, p)].queued_at}

\* C8: get_queue_status gives a queued player in_queue and position one plus
\* the number of players queued earlier (so at least 1, and larger for a later
\* arrival); a player not queued gets in_queue false, position 0 and wait 0.
C8_QueuePosition ==
    /\ ret.op = "get_queue_status" =>
          IF InQueue(ret.player_id)
          THEN /\ ret.result.in_queue = TRUE
               /\ ret.result.queue_position = 1 + Cardinality(Earlier(ret.player_id))
               /\ ret.result.queue_position >= 1
          ELSE ret.result = [in_queue |-> FALSE, queue_position |-> 0, estimated_wait |-> 0]
    /\ \A i, j \in DOMAIN queue :
          queue[i].queued_at < queue[j].queued_at =>
             QueueStatus(queue, queue[i].player_id).queue_position
                < QueueStatus(queue, queue[j].player_id).queue_position

\* The status of the third of three queued players has just been returned.
C8_Witness ==
    /\ ret.op = "get_queue_status"
    /\ Len(queue) = 3
    /\ ret.player_id = queue[3].player_id
    /\ ret.result.queue_position = 3

\* C9 (as claimed): wait 30 for position 1, 5 for position 2, and
\* max(10, (position div 2) * 30) for every later position.
C9_WaitByPosition ==
    (ret.op = "get_queue_status" /\ ret.result.in_queue) =>
        ret.result.estimated_wait =
            IF ret.result.queue_position = 1 THEN 30
            ELSE IF ret.result.queue_position = 2 THEN 5
            ELSE Max(10, (ret.result.queue_position \div 2) * 30)

\* C9 (amended): wait 30 for position 1, 5 for position 2, and
\* max(10, ((position - 1) div 2) * 30) for every later position: 30 seconds
\* for each complete pair in front of the player.
C9_WaitByPairsAhead ==
    (ret.op = "get_queue_status" /\ ret.result.in_queue) =>
        ret.result.estimated_wait =
            IF ret.result.queue_position = 1 THEN 30
            ELSE IF ret.result.queue_position = 2 THEN 5
            ELSE Max(10, ((ret.result.queue_position - 1) \div 2) * 30)

\* The fourth player in line has just been told to expect 30 seconds.
C9_Witness ==
    /\ ret.op = "get_queue_status"
    /\ ret.result.in_queue
    /\ ret.result.queue_position = 4
    /\ ret.result.estimated_wait = 30

\* C10: every task makes at most one match attempt, starts it only when its
\* player's channel is registered or the polling cap is used up, and does
\* start it, whether or not the channel ever registers; every successful add
\* has its task.
C10_OneAttempt ==
    /\ [](\A t \in DOMAIN tasks : tasks[t].attempts <= 1)
    /\ [](\A i \in DOMAIN queue : queue[i].queued_at \in DOMAIN tasks
                                  /\ tasks[queue[i].queued_at].attempts <= 1)
    /\ [][\A t \in DOMAIN tasks :
            tasks'[t].attempts > tasks[t].attempts =>
                \/ tasks[t].player_id \in matchmaking_websockets
                \/ tasks[t].waited >= MaxPolls]_vars
    /\ [][Len(queue') > Len(queue) => Len(tasks') = Len(tasks) + 1]_vars
    /\ []<>(\A t \in DOMAIN tasks : tasks[t].attempts = 1)

\* A task has started its attempt after the cap, no channel being registered.
C10_Witness ==
    /\ matchmaking_websockets = {}
    /\ \E t \in DOMAIN tasks : tasks[t].attempts = 1

\* ====================================================== the staleness sweep
\* now - player.queued_at > self.queue_timeout.  queued_at is the number of
\* the join, and joins are stamped in the order they happen, so the entries
\* older than the timeout are those of the first `expired` joins.
IsStale(player) == player.queued_at <= expired

\* The ids of the stale entries, in queue order.
StalePlayers(q) ==
    LET stale == SelectSeq(q, IsStale)
    IN  [i \in DOMAIN stale |-> stale[i].player_id]

\* Time passes: one more join is older than the timeout.
Elapse ==
    /\ expired < Len(tasks)
    /\ expired' = expired + 1
    /\ UNCHANGED <<queue_vars, sweep, game_vars>>

\* The body of cleanup_stale_players from the point where self.lock is taken
\* to the first remove_player: the list of stale players is built under the
\* lock, and with the lock still held remove_player is awaited for the first
\* of them.
cleanup_collect ==
    LET stale_players == StalePlayers(queue)
    IN  IF stale_players = << >>
        THEN /\ sweep' = [pc |-> "sleep", stale_players |-> << >>]
             /\ UNCHANGED lock
        ELSE /\ sweep' = [pc |-> "remove_player", stale_players |-> stale_players]
             /\ lock' = CleanupTask

\* One run of the cleanup task, from the await it is suspended in to the next
\* await that is not ready.
\*   sleep           in asyncio.sleep(60)
\*   lock            awaiting self.lock at the head of cleanup_stale_players
\*   remove_player   inside the loop, in remove_player, awaiting self.lock
cleanup_stale_players ==
    /\ CASE sweep.pc = "sleep" ->
                IF Acquirable(lock)
                THEN cleanup_collect /\ UNCHANGED queue
                ELSE sweep' = [sweep EXCEPT !.pc = "lock"] /\ UNCHANGED <<queue, lock>>
         [] sweep.pc = "lock" ->
                Acquirable(lock) /\ cleanup_collect /\ UNCHANGED queue
         [] sweep.pc = "remove_player" ->
                /\ Acquirable(lock)
                /\ queue' = OrderedDictDel(queue, Head(sweep.stale_players))
                /\ lock' = Free
                /\ sweep' = [pc |-> IF Tail(sweep.stale_players) = << >>
                                    THEN "sleep" ELSE "remove_player",
                             stale_players |-> Tail(sweep.stale_players)]
    /\ UNCHANGED <<matchmaking_websockets, matching_lock, tasks, matches, sent, ret,
                   expired, game_vars>>

\* The queue under joins, leaves, the passing of time and the sweep, while
\* every scheduled match task is still in its first sleep.
SweepNext ==
    \/ \E p \in Players : \E e \in Preferences(p) :
            /\ Len(tasks) < MaxTasks
            /\ add_player(p, e)
            /\ UNCHANGED <<ret, sweep_vars, game_vars>>
    \/ \E p \in Players : remove_player(p) /\ UNCHANGED <<ret, sweep_vars, game_vars>>
    \/ Elapse
    \/ cleanup_stale_players

\* The event loop runs the cleanup task whenever it is ready.
SweepSpec == Init /\ [][SweepNext]_vars /\ WF_vars(cleanup_stale_players)

\* C11 (as claimed): every run of the sweep comes to an end, back in its sleep,
\* and when a run has ended no player whose wait exceeds the timeout is left
\* in the queue, the other players being where they were.
C11_SweepRemovesStale ==
    /\ []<>(sweep.pc = "sleep")
    /\ [][sweep.pc # "sleep" /\ sweep'.pc = "sleep" =>
            queue' = SelectSeq(queue, LAMBDA player : ~IsStale(player))]_vars
    /\ [](sweep.pc = "remove_player" => ENABLED cleanup_stale_players)

\* ================================================================ the game
\* backend/app/services/game_logic.py, backend/app/routers/websocket.py and
\* backend/app/services/connection_manager.py.  Every message gets a database
\* session of its own; a handler reads the row, changes it and commits without
\* awaiting anything in between, and what it broadcasts afterwards is taken
\* from the row as refreshed right after its commit.  An action below is the
\* handling of one inbound message from its first line to its last.
\* The exercise table.  The handlers look an exercise up and store its id;
\* nothing depends on which exercise it is.
Exercises == {AnExercise}

\* exerciseId of a payload: absent, an exercise, or an id the table has not.
ExerciseIds == {NoExercise} \cup Exercises \cup {MissingExercise}

Seats == {PlayerA, PlayerB}

\* A GameSession row as first committed: the model's defaults.
GameSessionRow(player_a_id, player_b_id, current_exercise_id) ==
    [player_a_id |-> player_a_id,
     player_b_id |-> player_b_id,
     player_a_score |-> 0,
     player_b_score |-> 0,
     player_a_rounds_won |-> 0,
     player_b_rounds_won |-> 0,
     current_round |-> 1,
     status |-> "waiting",
     current_exercise_id |-> current_exercise_id]

\* dict[key] = value and del dict[key]
DictSet(dict, key, value) ==
    [k \in DOMAIN dict \cup {key} |-> IF k = key THEN value ELSE dict[k]]

DictDel(dict, key) == [k \in DOMAIN dict \ {key} |-> dict[k]]

\* ------------------------------------------------- the connection manager
\* The calls a handler makes on the manager and on its own channel.
broadcast_to_game(msg, exclude_player) ==
    [call |-> "broadcast_to_game", exclude_player |-> exclude_player, msg |-> msg]

send_personal_message(msg, player_id) ==
    [call |-> "send_personal_message", player_id |-> player_id, msg |-> msg]

send_json(msg, player_id) ==
    [call |-> "send_json", player_id |-> player_id, msg |-> msg]

\* player_ready_status after set_player_ready has stored the flag.
ReadyAfterSet(game_id, player_id, is_ready) ==
    DictSet(player_ready_status, game_id,
            DictSet(IF game_id \in DOMAIN player_ready_status
                    THEN player_ready_status[game_id] ELSE << >>,
                    player_id, is_ready))

\* set_player_ready without the count of the connected players.
set_player_ready_any_count(game_id, player_id, is_ready) ==
    LET ready_status == ReadyAfterSet(game_id, player_id, is_ready)[game_id]
    IN  /\ game_id \in DOMAIN active_connections
        /\ \A pid \in DOMAIN active_connections[game_id] :
                pid \in DOMAIN ready_status /\ ready_status[pid]

\* What set_player_ready returns: two connected players, both flagged ready.
set_player_ready_returns(game_id, player_id, is_ready) ==
    LET ready_status == ReadyAfterSet(game_id, player_id, is_ready)[game_id]
    IN  /\ game_id \in DOMAIN active_connections
        /\ Cardinality(DOMAIN active_connections[game_id]) = 2
        /\ \A pid \in DOMAIN active_connections[game_id] :
                pid \in DOMAIN ready_status /\ ready_status[pid]

\* player_ready_status after reset_player_ready_status.
ReadyAfterReset(game_id) ==
    IF game_id \in DOMAIN player_ready_status
    THEN DictSet(player_ready_status, game_id, << >>)
    ELSE player_ready_status

\* ----------------------------------------------------------- game logic
GameStateMessage(game_session, game_id) ==
    [type |-> "GAME_STATE",
     gameId |-> game_id,
     playerA |-> [id |-> game_session.player_a_id, score |-> game_session.player_a_score],
     playerB |-> [id |-> game_session.player_b_id, score |-> game_session.player_b_score],
     currentRound |-> game_session.current_round,
     status |-> game_session.status,
     exerciseId |-> game_session.current_exercise_id]

broadcast_game_state(game_session, game_id) ==
    broadcast_to_game(GameStateMessage(game_session, game_id), NoPlayer)

\* Everybody holds seat B who does not hold seat A.
SeatOfAnyone(game_session, player_id) ==
    IF game_session.player_a_id = player_id THEN "a" ELSE "b"

\* The seat a player id holds in a game.
SeatOf(game_session, player_id) ==
    IF game_session.player_a_id = player_id THEN "a"
    ELSE IF game_session.player_b_id = player_id THEN "b"
    ELSE "none"

\* The reported count added to the stored score.
NewScoreAdded(score, rep_count) == score + rep_count

\* game_session.player_x_score = rep_count
NewScore(score, rep_count) == rep_count

\* The row handle_rep_increment commits for a seated player.
RepIncrementRow(game_session, player_id, rep_count) ==
    LET scored ==
            IF SeatOf(game_session, player_id) = "a"
            THEN [game_session EXCEPT !.player_a_score = NewScore(@, rep_count)]
            ELSE [game_session EXCEPT !.player_b_score = NewScore(@, rep_count)]
    IN  [scored EXCEPT !.status = IF @ = "waiting" THEN "active" ELSE @]

handle_rep_increment(game_id, player_id, rep_count) ==
    IF \/ game_id \notin DOMAIN game_sessions
       \/ SeatOf(game_sessions[game_id], player_id) = "none"
    THEN /\ UNCHANGED game_sessions
         /\ broadcasts' = << >>
    ELSE LET game_session == RepIncrementRow(game_sessions[game_id], player_id, rep_count)
         IN  /\ game_sessions' = [game_sessions EXCEPT ![game_id] = game_session]
             /\ broadcasts' =
                  << broadcast_to_game([type |-> "REP_INCREMENT",
                                        playerId |-> player_id,
                                        repCount |-> rep_count], player_id),
                     broadcast_game_state(game_session, game_id) >>

\* A tie goes to player A.
RoundWinnerTieToA(game_session) ==
    IF game_session.player_a_score >= game_session.player_b_score THEN "a" ELSE "b"

\* Who has the higher score.
RoundWinner(game_session) ==
    IF game_session.player_a_score > game_session.player_b_score THEN "a"
    ELSE IF game_session.player_b_score > game_session.player_a_score THEN "b"
    ELSE "tie"

\* The row handle_round_end commits.
RoundEndRow(game_session) ==
    LET won ==
            CASE RoundWinner(game_session) = "a" ->
                    [game_session EXCEPT !.player_a_rounds_won = @ + 1]
              [] RoundWinner(game_session) = "b" ->
                    [game_session EXCEPT !.player_b_rounds_won = @ + 1]
              [] OTHER -> game_session
        game_over == won.player_a_rounds_won >= 2 \/ won.player_b_rounds_won >= 2
    IN  [won EXCEPT !.status = IF game_over THEN "finished" ELSE "round_end"]

\* The ROUND_END event, built from the row as read and the row as committed.
RoundEndMessage(before, game_session, game_id) ==
    LET w == RoundWinner(before)
    IN  [type |-> "ROUND_END",
         gameId |-> game_id,
         winnerId |-> CASE w = "a" -> before.player_a_id
                        [] w = "b" -> before.player_b_id
                        [] OTHER -> NoPlayer,
         loserId |-> CASE w = "a" -> before.player_b_id
                       [] w = "b" -> before.player_a_id
                       [] OTHER -> NoPlayer,
         playerAScore |-> game_session.player_a_score,
         playerBScore |-> game_session.player_b_score,
         playerARoundsWon |-> game_session.player_a_rounds_won,
         playerBRoundsWon |-> game_session.player_b_rounds_won,
         currentRound |-> game_session.current_round,
         gameOver |-> game_session.player_a_rounds_won >= 2
                        \/ game_session.player_b_rounds_won >= 2,
         matchWinnerId |-> IF game_session.player_a_rounds_won >= 2
                           THEN game_session.player_a_id
                           ELSE IF game_session.player_b_rounds_won >= 2
                                THEN game_session.player_b_id
                                ELSE NoPlayer]

handle_round_end(game_id) ==
    IF game_id \notin DOMAIN game_sessions
    THEN /\ UNCHANGED game_sessions
         /\ broadcasts' = << >>
    ELSE LET game_session == RoundEndRow(game_sessions[game_id])
         IN  /\ game_sessions' = [game_sessions EXCEPT ![game_id] = game_session]
             /\ broadcasts' =
                  << broadcast_to_game(RoundEndMessage(game_sessions[game_id],
                                                       game_session, game_id), NoPlayer),
                     broadcast_game_state(game_session, game_id) >>

\* The row start_next_round commits.
NextRoundRow(game_session, exercise_id) ==
    [game_session EXCEPT
        !.current_round = @ + 1,
        !.player_a_score = 0,
        !.player_b_score = 0,
        !.current_exercise_id = IF Truthy(exercise_id) THEN exercise_id ELSE @,
        !.status = "active"]

\* The snapshot broadcast before the ROUND_START event.
StartNextRoundSnapshotFirst(game_session, game_id) ==
    << broadcast_game_state(game_session, game_id),
       broadcast_to_game([type |-> "ROUND_START",
                          gameId |-> game_id,
                          currentRound |-> game_session.current_round,
                          exerciseId |-> game_session.current_exercise_id], NoPlayer) >>

\* What start_next_round broadcasts.
StartNextRoundBroadcasts(game_session, game_id) ==
    << broadcast_to_game([type |-> "ROUND_START",
                          gameId |-> game_id,
                          currentRound |-> game_session.current_round,
                          exerciseId |-> game_session.current_exercise_id], NoPlayer),
       broadcast_game_state(game_session, game_id) >>

start_next_round(game_id, exercise_id) ==
    IF game_id \notin DOMAIN game_sessions
    THEN /\ UNCHANGED game_sessions
         /\ broadcasts' = << >>
    ELSE LET game_session == NextRoundRow(game_sessions[game_id], exercise_id)
         IN  /\ game_sessions' = [game_sessions EXCEPT ![game_id] = game_session]
             /\ broadcasts' = StartNextRoundBroadcasts(game_session, game_id)

\* ------------------------------------------------- handle_websocket_message
\* EXERCISE_SELECTED starting a new round whatever the status.
ExerciseSelectedStartsRoundAlways(game_session) == TRUE

\* if game_session.status == "round_end"
ExerciseSelectedStartsRound(game_session) == game_session.status = "round_end"

\* The row the first-round branch of EXERCISE_SELECTED commits.
ExerciseSelectedRow(game_session, exercise_id) ==
    [game_session EXCEPT
        !.current_exercise_id = exercise_id,
        !.player_a_score = 0,
        !.player_b_score = 0,
        !.status = "active"]

\* EXERCISE_SELECTED.  datetime is a local name of handle_websocket_message,
\* bound by the import statement inside the first-round branch: on any other
\* path the read of datetime after the FORM_RULES broadcast raises, the
\* connection loop answers the sender with ERROR, and neither
\* READY_PHASE_START nor the reset of the ready flags is reached.  In
\* round_end the handler goes through start_next_round first.
exercise_selected(game_id, player_id, exercise_id) ==
    LET form_rules == broadcast_to_game([type |-> "FORM_RULES", exercise_id |-> exercise_id],
                                        NoPlayer)
        ready_phase == broadcast_to_game([type |-> "READY_PHASE_START", durationSeconds |-> 10],
                                         NoPlayer)
        error == send_json([type |-> "ERROR"], player_id)
    IN  IF ~Truthy(exercise_id) \/ exercise_id \notin Exercises
        THEN /\ broadcasts' = << >>
             /\ UNCHANGED <<game_sessions, player_ready_status>>
        ELSE IF game_id \notin DOMAIN game_sessions
        THEN /\ broadcasts' = <<form_rules, error>>
             /\ UNCHANGED <<game_sessions, player_ready_status>>
        ELSE IF ExerciseSelectedStartsRound(game_sessions[game_id])
        THEN LET game_session == NextRoundRow(game_sessions[game_id], exercise_id)
             IN  /\ game_sessions' = [game_sessions EXCEPT ![game_id] = game_session]
                 /\ broadcasts' = StartNextRoundBroadcasts(game_session, game_id)
                                        \o <<form_rules, error>>
                 /\ UNCHANGED player_ready_status
        ELSE LET game_session == ExerciseSelectedRow(game_sessions[game_id], exercise_id)
             IN  /\ game_sessions' = [game_sessions EXCEPT ![game_id] = game_session]
                 /\ broadcasts' = << broadcast_to_game(GameStateMessage(game_session, game_id),
                                                       NoPlayer),
                                     form_rules, ready_phase >>
                 /\ player_ready_status' = ReadyAfterReset(game_id)

\* PLAYER_READY with the ready event broadcast to everybody.
player_ready_to_everybody(game_id, player_id, is_ready) ==
    /\ player_ready_status' = ReadyAfterSet(game_id, player_id, is_ready)
    /\ broadcasts' =
          << broadcast_to_game([type |-> "PLAYER_READY", playerId |-> player_id,
                                isReady |-> is_ready], NoPlayer) >>
          \o (IF set_player_ready_returns(game_id, player_id, is_ready)
              THEN << broadcast_to_game([type |-> "COUNTDOWN_START", durationSeconds |-> 5],
                                        NoPlayer) >>
              ELSE << >>)
    /\ UNCHANGED game_sessions

\* PLAYER_READY
player_ready(game_id, player_id, is_ready) ==
    /\ player_ready_status' = ReadyAfterSet(game_id, player_id, is_ready)
    /\ broadcasts' =
          << broadcast_to_game([type |-> "PLAYER_READY", playerId |-> player_id,
                                isReady |-> is_ready], player_id) >>
          \o (IF set_player_ready_returns(game_id, player_id, is_ready)
              THEN << broadcast_to_game([type |-> "COUNTDOWN_START", durationSeconds |-> 5],
                                        NoPlayer) >>
              ELSE << >>)
    /\ UNCHANGED game_sessions

\* One inbound message of player_id on the channel of game_id, handled from
\* the first line to the last.
handle_websocket_message(msg, game_id, player_id) ==
    /\ message' = [msg |-> msg, game_id |-> game_id, player_id |-> player_id]
    /\ CASE msg.type = "PING" ->
                /\ broadcasts' = << send_personal_message([type |-> "PONG"], player_id) >>
                /\ UNCHANGED <<game_sessions, player_ready_status>>
         [] msg.type = "REP_INCREMENT" ->
                /\ handle_rep_increment(game_id, player_id, msg.repCount)
                /\ UNCHANGED player_ready_status
         [] msg.type = "ROUND_END" ->
                /\ handle_round_end(game_id)
                /\ UNCHANGED player_ready_status
         [] msg.type = "ROUND_START" ->
                /\ start_next_round(game_id, msg.exerciseId)
                /\ UNCHANGED player_ready_status
         [] msg.type = "EXERCISE_SELECTED" ->
                exercise_selected(game_id, player_id, msg.exerciseId)
         [] msg.type = "PLAYER_READY" ->
                player_ready(game_id, player_id, msg.isReady)
         [] OTHER ->
                /\ broadcasts' = << send_personal_message([type |-> "ECHO", original |-> msg],
                                                          player_id) >>
                /\ UNCHANGED <<game_sessions, player_ready_status>>
    /\ UNCHANGED <<queue_vars, sweep_vars, handler_vars>>

\* ------------------------------------------------------ the game's spec
\* The counters of the row stay within the bounds.
WithinBounds(msg, game_id) ==
    LET game_session == game_sessions[game_id]
    IN  CASE msg.type = "ROUND_END" ->
                /\ RoundEndRow(game_session).player_a_rounds_won <= MaxRoundsWon
                /\ RoundEndRow(game_session).player_b_rounds_won <= MaxRoundsWon
          [] msg.type = "ROUND_START" -> game_session.current_round < MaxRound
          [] msg.type = "EXERCISE_SELECTED" ->
                (msg.exerciseId \in Exercises /\ game_session.status = "round_end")
                    => game_session.current_round < MaxRound
          [] OTHER -> TRUE

\* The registry after both players of game_id have connected, each with a
\* channel of its own.
BothConnected(game_id) ==
    DictSet(<< >>, game_id, DictSet(DictSet(<< >>, PlayerA, PlayerA), PlayerB, PlayerB))

\* A match has been made for players A and B, its row is committed and both
\* players have opened their channel for the game.
GameInit ==
    /\ queue = << >>
    /\ matchmaking_websockets = {}
    /\ lock = Free
    /\ matching_lock = Free
    /\ tasks = << >>
    /\ matches = << >>
    /\ sent = << >>
    /\ ret = [op |-> "none"]
    /\ expired = 0
    /\ sweep = [pc |-> "sleep", stale_players |-> << >>]
    /\ \E exercise_id \in {NoExercise} \cup Exercises :
            game_sessions = << GameSessionRow(PlayerA, PlayerB, exercise_id) >>
    /\ active_connections = BothConnected(1)
    /\ player_ready_status = << >>
    /\ message = [msg |-> [type |-> "none"], game_id |-> NoGame, player_id |-> NoPlayer]
    /\ broadcasts = << >>
    /\ websockets = << >>
    /\ call = [op |-> "none"]
    /\ deliveries = << >>
    /\ handlers = << >>
    /\ inbox = << >>
    /\ entries = << >>

\* The messages of the two players, who stay connected.  A player id that
\* holds no seat is refused by the endpoint, so it reaches a handler only in
\* a score update called directly.
GameNext ==
    \/ \E game_id \in DOMAIN game_sessions, player_id \in Seats \cup {Outsider},
          rep_count \in 0 .. MaxReps :
            /\ handle_websocket_message([type |-> "REP_INCREMENT", repCount |-> rep_count],
                                        game_id, player_id)
            /\ UNCHANGED <<active_connections, channel_vars>>
    \/ \E game_id \in DOMAIN game_sessions, player_id \in Seats :
            /\ WithinBounds([type |-> "ROUND_END"], game_id)
            /\ handle_websocket_message([type |-> "ROUND_END"], game_id, player_id)
            /\ UNCHANGED <<active_connections, channel_vars>>
    \/ \E game_id \in DOMAIN game_sessions, player_id \in Seats,
          exercise_id \in {NoExercise} \cup Exercises :
            /\ WithinBounds([type |-> "ROUND_START", exerciseId |-> exercise_id], game_id)
            /\ handle_websocket_message([type |-> "ROUND_START", exerciseId |-> exercise_id],
                                        game_id, player_id)
            /\ UNCHANGED <<active_connections, channel_vars>>
    \/ \E game_id \in DOMAIN game_sessions, player_id \in Seats, exercise_id \in ExerciseIds :
            /\ WithinBounds([type |-> "EXERCISE_SELECTED", exerciseId |-> exercise_id], game_id)
            /\ handle_websocket_message([type |-> "EXERCISE_SELECTED", exerciseId |-> exercise_id],
                                        game_id, player_id)
            /\ UNCHANGED <<active_connections, channel_vars>>
    \/ \E game_id \in DOMAIN game_sessions, player_id \in Seats, is_ready \in BOOLEAN :
            /\ handle_websocket_message([type |-> "PLAYER_READY", isReady |-> is_ready],
                                        game_id, player_id)
            /\ UNCHANGED <<active_connections, channel_vars>>
    \/ \E game_id \in DOMAIN game_sessions, player_id \in Seats, type \in {"PING", "HELLO"} :
            /\ handle_websocket_message([type |-> type], game_id, player_id)
            /\ UNCHANGED <<active_connections, channel_vars>>

GameSpec == GameInit /\ [][GameNext]_vars

\* ------------------------------------------------------ the game's claims
\* The message handled by the step is of this type.
Handled(type) == message'.msg.type = type

\* The row of the game the handled message is for, before and after the step.
Before == game_sessions[message'.game_id]

After == game_sessions'[message'.game_id]

\* The event a handler broadcasts first, and the snapshot it broadcasts last.
FirstEvent == broadcasts'[1].msg

LastEvent == broadcasts'[Len(broadcasts')].msg

StatusChanges ==
    { <<"waiting", "active">>, <<"active", "round_end">>,
      <<"active", "finished">>, <<"round_end", "active">> }

\* C12 (as claimed): whatever messages arrive, a match changes status only
\* along waiting -> active, active -> round_end, active -> finished and
\* round_end -> active; a finished match keeps its status.
C12_StatusMachine ==
    [][\A g \in DOMAIN game_sessions :
            game_sessions'[g].status # game_sessions[g].status =>
                <<game_sessions[g].status, game_sessions'[g].status>> \in StatusChanges]_vars

\* C13: a score update with count c from a seated player sets that player's
\* score to c, leaves the opponent's score, both rounds_won and current_round
\* as they were, takes a waiting match to active, and ends with a GAME_STATE
\* broadcast that shows the sender's score as c and the opponent's unchanged.
C13_ScoreReplaced ==
    [][(Handled("REP_INCREMENT") /\ message'.player_id \in Seats) =>
            LET c == message'.msg.repCount
                a == message'.player_id = Before.player_a_id
            IN  /\ a => After.player_a_score = c /\ After.player_b_score = Before.player_b_score
                /\ ~a => After.player_b_score = c /\ After.player_a_score = Before.player_a_score
                /\ After.player_a_rounds_won = Before.player_a_rounds_won
                /\ After.player_b_rounds_won = Before.player_b_rounds_won
                /\ After.current_round = Before.current_round
                /\ Before.status = "waiting" => After.status = "active"
                /\ Before.status # "waiting" => After.status = Before.status
                /\ LastEvent.type = "GAME_STATE"
                /\ a => /\ LastEvent.playerA.score = c
                        /\ LastEvent.playerB.score = Before.player_b_score
                /\ ~a => /\ LastEvent.playerB.score = c
                         /\ LastEvent.playerA.score = Before.player_a_score]_vars

\* Player B has just reported a count that is not zero, in a match where A has
\* a score too, and the snapshot went out.
C13_Witness ==
    /\ message.msg.type = "REP_INCREMENT"
    /\ message.player_id = PlayerB
    /\ message.msg.repCount = MaxReps
    /\ game_sessions[1].player_b_score = MaxReps
    /\ game_sessions[1].player_a_score > 0
    /\ game_sessions[1].status = "active"
    /\ Len(broadcasts) = 2
    /\ broadcasts[2].msg.type = "GAME_STATE"

\* C14 (as claimed): a score update that arrives while the match is in
\* round_end or finished changes neither score.
C14_ScoreOnlyInPlay ==
    [][(Handled("REP_INCREMENT") /\ Before.status \in {"round_end", "finished"}) =>
            /\ After.player_a_score = Before.player_a_score
            /\ After.player_b_score = Before.player_b_score]_vars

\* C15: a score update from a player id that holds neither seat changes
\* nothing in the match record, and nothing is broadcast.
C15_OutsiderIgnored ==
    [][(Handled("REP_INCREMENT")
            /\ message'.player_id \notin {Before.player_a_id, Before.player_b_id}) =>
            /\ game_sessions' = game_sessions
            /\ broadcasts' = << >>]_vars

\* An outsider's score update has just been handled in a match that is being
\* played, and nothing went out.
C15_Witness ==
    /\ message.msg.type = "REP_INCREMENT"
    /\ message.player_id = Outsider
    /\ message.msg.repCount = MaxReps
    /\ broadcasts = << >>
    /\ game_sessions[1].status = "active"
    /\ game_sessions[1].player_a_score = 0
    /\ game_sessions[1].player_b_score = 0

\* C16: a round end with unequal scores adds one to the rounds_won of the
\* higher scorer only and reports that player as winner and the other as
\* loser; with equal scores neither rounds_won changes and no winner is
\* reported; in both cases the status becomes round_end when neither player
\* has two rounds.
C16_RoundEnd ==
    [][Handled("ROUND_END") =>
            /\ Before.player_a_score > Before.player_b_score =>
                    /\ After.player_a_rounds_won = Before.player_a_rounds_won + 1
                    /\ After.player_b_rounds_won = Before.player_b_rounds_won
                    /\ FirstEvent.winnerId = Before.player_a_id
                    /\ FirstEvent.loserId = Before.player_b_id
            /\ Before.player_b_score > Before.player_a_score =>
                    /\ After.player_b_rounds_won = Before.player_b_rounds_won + 1
                    /\ After.player_a_rounds_won = Before.player_a_rounds_won
                    /\ FirstEvent.winnerId = Before.player_b_id
                    /\ FirstEvent.loserId = Before.player_a_id
            /\ Before.player_a_score = Before.player_b_score =>
                    /\ After.player_a_rounds_won = Before.player_a_rounds_won
                    /\ After.player_b_rounds_won = Before.player_b_rounds_won
                    /\ FirstEvent.winnerId = NoPlayer
                    /\ FirstEvent.loserId = NoPlayer
            /\ FirstEvent.type = "ROUND_END"
            /\ (After.player_a_rounds_won < 2 /\ After.player_b_rounds_won < 2) =>
                    After.status = "round_end"]_vars

\* A round has just ended that player B won, the first round anybody won.
C16_Witness ==
    /\ message.msg.type = "ROUND_END"
    /\ broadcasts[1].msg.type = "ROUND_END"
    /\ broadcasts[1].msg.winnerId = PlayerB
    /\ broadcasts[1].msg.loserId = PlayerA
    /\ game_sessions[1].player_b_rounds_won = 1
    /\ game_sessions[1].player_a_rounds_won = 0
    /\ game_sessions[1].status = "round_end"

\* C17 (as claimed): a round end that brings a player's rounds_won to 2
\* finishes the match and reports gameOver with that player as match winner;
\* and no match is finished while both players have fewer than two rounds.
C17_FirstToTwo ==
    /\ [][Handled("ROUND_END") =>
            /\ (After.player_a_rounds_won = 2 /\ Before.player_a_rounds_won < 2) =>
                    /\ After.status = "finished"
                    /\ FirstEvent.gameOver
                    /\ FirstEvent.matchWinnerId = Before.player_a_id
            /\ (After.player_b_rounds_won = 2 /\ Before.player_b_rounds_won < 2) =>
                    /\ After.status = "finished"
                    /\ FirstEvent.gameOver
                    /\ FirstEvent.matchWinnerId = Before.player_b_id]_vars
    /\ [](\A g \in DOMAIN game_sessions :
            game_sessions[g].status = "finished" =>
                \/ game_sessions[g].player_a_rounds_won >= 2
                \/ game_sessions[g].player_b_rounds_won >= 2)

\* C18 (as claimed): once a player has two rounds and the match is finished, a
\* further round end changes nothing: status, rounds_won and scores stay, and
\* the match winner reported is still that player.
C18_FinishedStays ==
    [][(Handled("ROUND_END") /\ Before.status = "finished"
            /\ (Before.player_a_rounds_won >= 2 \/ Before.player_b_rounds_won >= 2)) =>
            /\ After = Before
            /\ FirstEvent.matchWinnerId =
                    IF Before.player_a_rounds_won >= 2
                    THEN Before.player_a_id ELSE Before.player_b_id]_vars

\* C19 (as claimed): a round start handled in round_end adds one to
\* current_round, resets both scores, applies the exercise given, makes the
\* match active and leaves both rounds_won; a round start handled in any other
\* status does not add to current_round.
C19_RoundStart ==
    [][Handled("ROUND_START") =>
            IF Before.status = "round_end"
            THEN /\ After.current_round = Before.current_round + 1
                 /\ After.player_a_score = 0
                 /\ After.player_b_score = 0
                 /\ message'.msg.exerciseId # NoExercise =>
                        After.current_exercise_id = message'.msg.exerciseId
                 /\ After.status = "active"
                 /\ After.player_a_rounds_won = Before.player_a_rounds_won
                 /\ After.player_b_rounds_won = Before.player_b_rounds_won
            ELSE After.current_round = Before.current_round]_vars

\* C20: EXERCISE_SELECTED for an exercise that exists, on a match that is not
\* in round_end, sets the match's exercise and resets both scores, and leaves
\* current_round and both rounds_won as they were.
C20_FirstRoundExercise ==
    [][(Handled("EXERCISE_SELECTED") /\ message'.msg.exerciseId \in Exercises
            /\ Before.status # "round_end") =>
            /\ After.current_exercise_id = message'.msg.exerciseId
            /\ After.player_a_score = 0
            /\ After.player_b_score = 0
            /\ After.current_round = Before.current_round
            /\ After.player_a_rounds_won = Before.player_a_rounds_won
            /\ After.player_b_rounds_won = Before.player_b_rounds_won]_vars

\* An exercise has just been selected in the first round of a match, after a
\* score had been reported: the snapshot that went out first shows the reset.
C20_Witness ==
    /\ message.msg.type = "EXERCISE_SELECTED"
    /\ message.msg.exerciseId = AnExercise
    /\ game_sessions[1].current_round = 1
    /\ game_sessions[1].current_exercise_id = AnExercise
    /\ game_sessions[1].player_a_score = 0
    /\ game_sessions[1].player_b_score = 0
    /\ broadcasts[1].msg.type = "GAME_STATE"
    /\ broadcasts[3].msg.type = "READY_PHASE_START"

\* ---------------------------------------------- the ready phase's claims
\* A player's ready flag for a game, in the state a step leaves.
ReadyFlagAfter(game_id, player_id) ==
    /\ game_id \in DOMAIN player_ready_status'
    /\ player_id \in DOMAIN player_ready_status'[game_id]
    /\ player_ready_status'[game_id][player_id]

\* C21 (as claimed): after an EXERCISE_SELECTED for an exercise that exists,
\* whatever the status of the match was, no player of the game is flagged
\* ready any more.
C21_SelectionClearsReady ==
    [][(Handled("EXERCISE_SELECTED") /\ message'.msg.exerciseId \in Exercises) =>
            \A player_id \in Seats \cup {Outsider} :
                ~ReadyFlagAfter(message'.game_id, player_id)]_vars

\* The manager calls of the handled message that broadcast an event of this
\* type, as positions in the order the handler made them.
BroadcastsOf(type) ==
    {i \in DOMAIN broadcasts' :
        broadcasts'[i].call = "broadcast_to_game" /\ broadcasts'[i].msg.type = type}

\* C22 (as claimed): every EXERCISE_SELECTED for an exercise that exists, in
\* the first round and in round_end alike, broadcasts FORM_RULES and after it
\* READY_PHASE_START with a duration of 10 seconds.
C22_FormRulesThenReadyPhase ==
    [][(Handled("EXERCISE_SELECTED") /\ message'.msg.exerciseId \in Exercises) =>
            \E i \in BroadcastsOf("FORM_RULES"), j \in BroadcastsOf("READY_PHASE_START") :
                /\ i < j
                /\ broadcasts'[j].msg.durationSeconds = 10]_vars

\* ------------------------------------------- the registry, call by call
Games == {1, OtherGame}

\* connect keeping the channel a player has already registered.
ConnectedAfterFirstWins(websocket, game_id, player_id) ==
    IF game_id \in DOMAIN active_connections /\ player_id \in DOMAIN active_connections[game_id]
    THEN active_connections
    ELSE DictSet(active_connections, game_id,
                 DictSet(IF game_id \in DOMAIN active_connections
                         THEN active_connections[game_id] ELSE << >>,
                         player_id, websocket))

\* active_connections after connect has accepted the channel and stored it.
ConnectedAfter(websocket, game_id, player_id) ==
    DictSet(active_connections, game_id,
            DictSet(IF game_id \in DOMAIN active_connections
                    THEN active_connections[game_id] ELSE << >>,
                    player_id, websocket))

\* The registry after disconnect: the player's channel is deleted, and the
\* game's dict with it once it is empty.
Disconnect(registry, game_id, player_id) ==
    IF game_id \in DOMAIN registry
    THEN LET connections == DictDel(registry[game_id], player_id)
         IN  IF DOMAIN connections = {}
             THEN DictDel(registry, game_id)
             ELSE DictSet(registry, game_id, connections)
    ELSE registry

\* active_connections after disconnect.
DisconnectedAfter(game_id, player_id) == Disconnect(active_connections, game_id, player_id)

\* list(connections[game_id].keys()), or [] for a game with no entry.
ConnectedPlayers(connections, game_id) ==
    IF game_id \in DOMAIN connections THEN DOMAIN connections[game_id] ELSE {}

get_connected_players(game_id) == ConnectedPlayers(active_connections, game_id)

\* A broadcast that skips nobody.
RecipientsAll(game_id, exclude_player) == get_connected_players(game_id)

\* The players a broadcast of the game sends to: if pid != exclude_player.
Recipients(game_id, exclude_player) == get_connected_players(game_id) \ {exclude_player}

\* await websocket.send_json(message): the message arrives unless the channel
\* fails, which raises.
SendJson(websocket, player_id, failing) ==
    [player_id |-> player_id, websocket |-> websocket, ok |-> websocket \notin failing]

\* The send_json calls one call of a handler makes.  The manager sends on the
\* channels it has registered; the endpoint sends on its own channel.
SendsOf(c, game_id, websocket, failing) ==
    CASE c.call = "broadcast_to_game" ->
            { SendJson(active_connections[game_id][pid], pid, failing) :
                pid \in Recipients(game_id, c.exclude_player) }
      [] c.call = "send_personal_message" ->
            IF c.player_id \in get_connected_players(game_id)
            THEN { SendJson(active_connections[game_id][c.player_id], c.player_id, failing) }
            ELSE {}
      [] c.call = "send_json" ->
            { SendJson(websocket, c.player_id, failing) }

\* What the calls of a handler put on the channels, call by call.
Deliveries(calls, game_id, websocket, failing) ==
    [i \in DOMAIN calls |->
        [msg |-> calls[i].msg, to |-> SendsOf(calls[i], game_id, websocket, failing)]]

NoMessage == [msg |-> [type |-> "none"], game_id |-> NoGame, player_id |-> NoPlayer]

\* The channels opened so far.
Websockets == 1 .. Len(websockets)

\* The channels whose send_json raises during one call: none, or any one
\* channel, whose peer is gone.
Failing == {{}} \cup {{websocket} : websocket \in Websockets}

\* What a call on the manager leaves alone.
ManagerFrame ==
    /\ message' = NoMessage
    /\ broadcasts' = << >>
    /\ UNCHANGED <<queue_vars, sweep_vars, handler_vars, game_sessions>>

\* await manager.connect(websocket, game_id, player_id), with a new channel
manager_connect(game_id, player_id) ==
    LET websocket == Len(websockets) + 1
    IN  /\ Len(websockets) < MaxWebsockets
        /\ websockets' = Append(websockets, [game_id |-> game_id, player_id |-> player_id,
                                             state |-> "open"])
        /\ active_connections' = ConnectedAfter(websocket, game_id, player_id)
        /\ call' = [op |-> "connect", game_id |-> game_id, player_id |-> player_id,
                    websocket |-> websocket]
        /\ deliveries' = << >>
        /\ UNCHANGED player_ready_status
        /\ ManagerFrame

\* manager.disconnect(game_id, player_id)
manager_disconnect(game_id, player_id) ==
    /\ active_connections' = DisconnectedAfter(game_id, player_id)
    /\ call' = [op |-> "disconnect", game_id |-> game_id, player_id |-> player_id]
    /\ deliveries' = << >>
    /\ UNCHANGED <<player_ready_status, websockets>>
    /\ ManagerFrame

\* await manager.set_player_ready(game_id, player_id, is_ready)
manager_set_player_ready(game_id, player_id, is_ready) ==
    /\ player_ready_status' = ReadyAfterSet(game_id, player_id, is_ready)
    /\ call' = [op |-> "set_player_ready", game_id |-> game_id, player_id |-> player_id,
                is_ready |-> is_ready,
                returns |-> set_player_ready_returns(game_id, player_id, is_ready)]
    /\ deliveries' = << >>
    /\ UNCHANGED <<active_connections, websockets>>
    /\ ManagerFrame

\* manager.reset_player_ready_status(game_id)
manager_reset_player_ready_status(game_id) ==
    /\ player_ready_status' = ReadyAfterReset(game_id)
    /\ call' = [op |-> "reset_player_ready_status", game_id |-> game_id]
    /\ deliveries' = << >>
    /\ UNCHANGED <<active_connections, websockets>>
    /\ ManagerFrame

\* await manager.send_personal_message(msg, game_id, player_id): the except
\* clause around the send swallows a failure, the call returns.
manager_send_personal_message(msg, game_id, player_id, failing) ==
    /\ deliveries' = Deliveries(<< send_personal_message(msg, player_id) >>,
                                game_id, NoWebsocket, failing)
    /\ call' = [op |-> "send_personal_message", game_id |-> game_id, player_id |-> player_id,
                failing |-> failing, raised |-> FALSE]
    /\ UNCHANGED <<active_connections, player_ready_status, websockets>>
    /\ ManagerFrame

\* await manager.broadcast_to_game(msg, game_id, exclude_player): each send
\* has an except clause of its own, the loop goes on and the call returns.
manager_broadcast_to_game(msg, game_id, exclude_player, failing) ==
    /\ deliveries' = Deliveries(<< broadcast_to_game(msg, exclude_player) >>,
                                game_id, NoWebsocket, failing)
    /\ call' = [op |-> "broadcast_to_game", game_id |-> game_id,
                exclude_player |-> exclude_player, failing |-> failing, raised |-> FALSE]
    /\ UNCHANGED <<active_connections, player_ready_status, websockets>>
    /\ ManagerFrame

\* The manager as websocket.py creates it, and calls on it in any order.
RegistryNext ==
    \/ \E game_id \in Games, player_id \in Seats : manager_connect(game_id, player_id)
    \/ \E game_id \in Games, player_id \in Seats : manager_disconnect(game_id, player_id)
    \/ \E game_id \in DOMAIN game_sessions, player_id \in Seats, is_ready \in BOOLEAN :
            manager_set_player_ready(game_id, player_id, is_ready)
    \/ \E game_id \in DOMAIN game_sessions : manager_reset_player_ready_status(game_id)
    \/ \E game_id \in Games, player_id \in Seats, failing \in Failing :
            manager_send_personal_message([type |-> "PONG"], game_id, player_id, failing)
    \/ \E game_id \in Games, exclude_player \in Seats \cup {NoPlayer},
          failing \in Failing :
            manager_broadcast_to_game([type |-> "GAME_STATE"], game_id, exclude_player, failing)

\* The game's row is committed, nobody has connected yet.
RegistryInit ==
    /\ queue = << >>
    /\ matchmaking_websockets = {}
    /\ lock = Free
    /\ matching_lock = Free
    /\ tasks = << >>
    /\ matches = << >>
    /\ sent = << >>
    /\ ret = [op |-> "none"]
    /\ expired = 0
    /\ sweep = [pc |-> "sleep", stale_players |-> << >>]
    /\ game_sessions = << GameSessionRow(PlayerA, PlayerB, NoExercise) >>
    /\ active_connections = << >>
    /\ player_ready_status = << >>
    /\ message = NoMessage
    /\ broadcasts = << >>
    /\ websockets = << >>
    /\ call = [op |-> "none"]
    /\ deliveries = << >>
    /\ handlers = << >>
    /\ inbox = << >>
    /\ entries = << >>

RegistrySpec == RegistryInit /\ [][RegistryNext]_vars

\* ------------------------------------------------ the registry's claims
\* player_id is flagged ready for game_id.
Flagged(game_id, player_id) ==
    /\ game_id \in DOMAIN player_ready_status
    /\ player_id \in DOMAIN player_ready_status[game_id]
    /\ player_ready_status[game_id][player_id]

\* C23: set_player_ready stores the flag it is given, and returns true exactly
\* when two players are connected to the game and both are flagged ready; in
\* particular a player's ready signal returns false while the other player is
\* not flagged ready, however often it is repeated.
C23_SetReady ==
    call.op = "set_player_ready" =>
        LET connected == ConnectedPlayers(active_connections, call.game_id)
        IN  /\ call.game_id \in DOMAIN player_ready_status
            /\ call.player_id \in DOMAIN player_ready_status[call.game_id]
            /\ player_ready_status[call.game_id][call.player_id] = call.is_ready
            /\ call.returns <=>
                    /\ Cardinality(connected) = 2
                    /\ \A pid \in connected : Flagged(call.game_id, pid)
            /\ (\E pid \in Seats \ {call.player_id} : ~Flagged(call.game_id, pid)) =>
                    ~call.returns

\* Both players are connected, A was flagged ready, and B's signal has just
\* returned true.
C23_Witness ==
    /\ call.op = "set_player_ready"
    /\ call.player_id = PlayerB
    /\ call.is_ready
    /\ call.returns
    /\ Flagged(call.game_id, PlayerA)
    /\ ConnectedPlayers(active_connections, call.game_id) = Seats

\* C26 (as claimed): after disconnect(game_id, player_id) the player is not
\* among the connected players of the game; and if the player was the last
\* one registered for the game, neither of the manager's per-game maps has an
\* entry for the game any more.
C26_DisconnectPrunes ==
    [][call'.op = "disconnect" =>
            /\ call'.player_id \notin ConnectedPlayers(active_connections', call'.game_id)
            /\ get_connected_players(call'.game_id) = {call'.player_id} =>
                    /\ call'.game_id \notin DOMAIN active_connections'
                    /\ call'.game_id \notin DOMAIN player_ready_status']_vars

\* The channel of the most recent connect for (game_id, player_id).
MostRecentConnect(game_id, player_id) ==
    LET connects == {w \in Websockets : /\ websockets[w].game_id = game_id
                                        /\ websockets[w].player_id = player_id}
    IN  CHOOSE w \in connects : \A v \in connects : v <= w

\* C27: however often connect is called for one (game_id, player_id), the
\* registry holds one channel for the pair, the channel of the most recent
\* connect, and every send or broadcast for that player goes to that channel
\* and to no other.
C27_LastConnectWins ==
    /\ \A game_id \in DOMAIN active_connections :
        \A player_id \in DOMAIN active_connections[game_id] :
            active_connections[game_id][player_id] = MostRecentConnect(game_id, player_id)
    /\ call.op = "connect" =>
            active_connections[call.game_id][call.player_id] = call.websocket
    /\ call.op \in {"send_personal_message", "broadcast_to_game"} =>
            \A i \in DOMAIN deliveries :
                /\ \A s \in deliveries[i].to :
                        s.websocket = MostRecentConnect(call.game_id, s.player_id)
                /\ \A s, t \in deliveries[i].to : s.player_id = t.player_id => s = t

\* Player A has connected twice to the game, and a broadcast has then gone to
\* the second channel.
C27_Witness ==
    /\ Len(websockets) = 2
    /\ \A w \in Websockets : websockets[w].game_id = 1 /\ websockets[w].player_id = PlayerA
    /\ call.op = "broadcast_to_game"
    /\ call.game_id = 1
    /\ deliveries[1].to = {[player_id |-> PlayerA, websocket |-> 2, ok |-> TRUE]}

\* The channels registered for a game.
ChannelsOf(game_id) ==
    {active_connections[game_id][pid] : pid \in ConnectedPlayers(active_connections, game_id)}

PlayerIdParams == {"", "abc", "1", "2", "3"}

\* int(player_id_str) raises ValueError unless the string is a number.
IsInteger(player_id_str) == player_id_str \in {"1", "2", "3"}

ParsePlayerId(player_id_str) ==
    CASE player_id_str = "1" -> 1
      [] player_id_str = "2" -> 2
      [] player_id_str = "3" -> 3

\* The endpoint without the check of the player's seat.
CloseReasonAnyPlayer(game_id, player_id_str) ==
    IF player_id_str = "" THEN "player_id required in query params"
    ELSE IF ~IsInteger(player_id_str) THEN "player_id must be an integer"
    ELSE IF game_id \notin DOMAIN game_sessions THEN "Game not found"
    ELSE ""

\* The reason the endpoint closes a new channel with, "" if it does not.
CloseReason(game_id, player_id_str) ==
    IF player_id_str = "" THEN "player_id required in query params"
    ELSE IF ~IsInteger(player_id_str) THEN "player_id must be an integer"
    ELSE IF game_id \notin DOMAIN game_sessions THEN "Game not found"
    ELSE IF ParsePlayerId(player_id_str) \notin {game_sessions[game_id].player_a_id,
                                                  game_sessions[game_id].player_b_id}
    THEN "Player not part of this game"
    ELSE ""

\* The snapshot a channel gets when it has been registered.
InitialGameState(game_session, game_id) ==
    [type |-> "GAME_STATE",
     gameId |-> game_id,
     playerA |-> [id |-> game_session.player_a_id, score |-> game_session.player_a_score],
     playerB |-> [id |-> game_session.player_b_id, score |-> game_session.player_b_score],
     currentRound |-> game_session.current_round,
     status |-> game_session.status]

\* What the endpoint leaves alone outside its message handlers.
EndpointFrame ==
    /\ message' = NoMessage
    /\ broadcasts' = << >>
    /\ UNCHANGED <<queue_vars, sweep_vars, handler_vars, game_sessions, player_ready_status>>

\* websocket_endpoint from its first line to the first receive_text: a new
\* channel is closed with code 1008, or it is registered and sent the
\* snapshot.  A snapshot that cannot be sent raises, and the handler of the
\* exception unregisters the player.
websocket_endpoint(game_id, player_id_str, sent_ok) ==
    LET websocket == Len(websockets) + 1
        reason == CloseReason(game_id, player_id_str)
    IN  /\ Len(websockets) < MaxWebsockets
        /\ IF reason # ""
           THEN /\ websockets' = Append(websockets, [game_id |-> NoGame, player_id |-> NoPlayer,
                                                     state |-> "closed"])
                /\ deliveries' = << >>
                /\ UNCHANGED active_connections
           ELSE LET player_id == ParsePlayerId(player_id_str)
                    registry == ConnectedAfter(websocket, game_id, player_id)
                IN  /\ websockets' =
                          Append(websockets,
                                 [game_id |-> game_id, player_id |-> player_id,
                                  state |-> IF sent_ok THEN "open" ELSE "disconnected"])
                    /\ active_connections' =
                          IF sent_ok THEN registry ELSE Disconnect(registry, game_id, player_id)
                    /\ deliveries' =
                          << [msg |-> InitialGameState(game_sessions[game_id], game_id),
                              to |-> {[player_id |-> player_id, websocket |-> websocket,
                                       ok |-> sent_ok]}] >>
        /\ call' = [op |-> "websocket_endpoint", game_id |-> game_id,
                    player_id_str |-> player_id_str, websocket |-> websocket,
                    reason |-> reason]
        /\ EndpointFrame

\* An except clause that raises again after its reply.
RaisesAfterReply(calls, websocket, failing) ==
    \E i \in DOMAIN calls : calls[i].call = "send_json"

\* The except clauses of the loop catch what the handler raises and reply on
\* the endpoint's own channel; only a reply that cannot be sent raises.
Raises(calls, websocket, failing) ==
    /\ websocket \in failing
    /\ \E i \in DOMAIN calls : calls[i].call = "send_json"

\* The loop of an endpoint after the handler of one receive_text has made
\* its calls: an exception that leaves the loop is caught by the endpoint,
\* which unregisters the player and returns.
AfterHandler(websocket, failing) ==
    LET game_id == websockets[websocket].game_id
        player_id == websockets[websocket].player_id
        raised == Raises(broadcasts', websocket, failing)
    IN  /\ deliveries' = Deliveries(broadcasts', game_id, websocket, failing)
        /\ active_connections' =
              IF raised THEN DisconnectedAfter(game_id, player_id) ELSE active_connections
        /\ websockets' =
              [websockets EXCEPT ![websocket].state = IF raised THEN "disconnected" ELSE @]

\* One text that is JSON, received on an open channel and handled.
receive_text(websocket, msg, failing) ==
    /\ websockets[websocket].state = "open"
    /\ handle_websocket_message(msg, websockets[websocket].game_id,
                                websockets[websocket].player_id)
    /\ AfterHandler(websocket, failing)
    /\ call' = [op |-> "receive_text", websocket |-> websocket, is_dict |-> TRUE,
                failing |-> failing]

\* Texts no handler gets to see: one that is not JSON, one that is JSON but
\* no object.
BadTexts == {"{", "[]"}

\* json.loads raises JSONDecodeError on a text that is not JSON; message.get
\* raises AttributeError on a list.
ErrorPayload(data) ==
    IF data = "{" THEN "Invalid JSON" ELSE "'list' object has no attribute 'get'"

\* One text that json.loads or the first line of the handler raises on.
receive_invalid_json(websocket, data, failing) ==
    /\ websockets[websocket].state = "open"
    /\ message' = NoMessage
    /\ broadcasts' = << send_json([type |-> "ERROR", payload |-> ErrorPayload(data)],
                                  websockets[websocket].player_id) >>
    /\ AfterHandler(websocket, failing)
    /\ call' = [op |-> "receive_text", websocket |-> websocket, is_dict |-> FALSE,
                data |-> data, failing |-> failing]
    /\ UNCHANGED <<queue_vars, sweep_vars, handler_vars, game_sessions, player_ready_status>>

\* The peer of an open channel goes away: receive_text raises
\* WebSocketDisconnect and the endpoint unregisters its player.
WebSocketDisconnect(websocket) ==
    /\ websockets[websocket].state = "open"
    /\ websockets' = [websockets EXCEPT ![websocket].state = "disconnected"]
    /\ active_connections' = DisconnectedAfter(websockets[websocket].game_id,
                                               websockets[websocket].player_id)
    /\ call' = [op |-> "WebSocketDisconnect", websocket |-> websocket]
    /\ deliveries' = << >>
    /\ EndpointFrame

\* The messages the clients send in the endpoint's specification.
EndpointMessages ==
    {[type |-> "ROUND_END"], [type |-> "PING"], [type |-> "HELLO"]}
        \cup {[type |-> "EXERCISE_SELECTED", exerciseId |-> exercise_id] :
                exercise_id \in Exercises}
        \cup {[type |-> "PLAYER_READY", isReady |-> is_ready] : is_ready \in BOOLEAN}

EndpointNext ==
    \/ \E game_id \in Games, player_id_str \in PlayerIdParams, sent_ok \in BOOLEAN :
            websocket_endpoint(game_id, player_id_str, sent_ok)
    \/ \E websocket \in Websockets, msg \in EndpointMessages, failed \in BOOLEAN :
            /\ websockets[websocket].state = "open"
            /\ WithinBounds(msg, websockets[websocket].game_id)
            /\ receive_text(websocket, msg, IF failed THEN {websocket} ELSE {})
    \/ \E websocket \in Websockets, data \in BadTexts, failed \in BOOLEAN :
            receive_invalid_json(websocket, data, IF failed THEN {websocket} ELSE {})
    \/ \E websocket \in Websockets : WebSocketDisconnect(websocket)

EndpointSpec == RegistryInit /\ [][EndpointNext]_vars

\* ------------------------------------------------ the endpoint's claims
\* The channels the registry holds, over all games.
RegisteredChannels == UNION {ChannelsOf(game_id) : game_id \in DOMAIN active_connections}

\* The step is a connection attempt that has to be refused: no player id, a
\* player id that is no number, a game without a row, or a player who holds
\* no seat of the game.
RefusedAttempt ==
    /\ call'.op = "websocket_endpoint"
    /\ \/ call'.player_id_str \in {"", "abc"}
       \/ call'.game_id \notin DOMAIN game_sessions
       \/ call'.player_id_str = "3"

\* C29: a connection attempt without a player id, with a player id that is
\* not an integer, for a game that has no row, or by a player who holds no
\* seat of the game is closed, sends nothing and changes neither the registry
\* nor any match row nor any ready flag; a channel closed this way is never in
\* the registry.
C29_RefusedAttempt ==
    /\ [][RefusedAttempt =>
            /\ websockets'[call'.websocket].state = "closed"
            /\ deliveries' = << >>
            /\ active_connections' = active_connections
            /\ game_sessions' = game_sessions
            /\ player_ready_status' = player_ready_status]_vars
    /\ [](\A websocket \in Websockets :
            websockets[websocket].state = "closed" => websocket \notin RegisteredChannels)

\* Player A is connected and flagged ready, and a player who holds no seat has
\* just been refused.
C29_Witness ==
    /\ call.op = "websocket_endpoint"
    /\ call.reason = "Player not part of this game"
    /\ websockets[call.websocket].state = "closed"
    /\ PlayerA \in ConnectedPlayers(active_connections, 1)
    /\ Flagged(1, PlayerA)

\* The registry holds this channel for the player of its endpoint.
IsRegistered(websocket) ==
    LET game_id == websockets[websocket].game_id
        player_id == websockets[websocket].player_id
    IN  /\ player_id \in ConnectedPlayers(active_connections, game_id)
        /\ active_connections[game_id][player_id] = websocket

\* A message that arrived on the endpoint's own channel.
OnOwnChannel(websocket) ==
    {[player_id |-> websockets[websocket].player_id, websocket |-> websocket, ok |-> TRUE]}

\* The text received in the step is a bad message: a text that is no JSON
\* object, a message of a type no branch handles, or an EXERCISE_SELECTED
\* whose handler raises (an exercise that exists, selected in round_end).
BadMessage(websocket) ==
    \/ ~call'.is_dict
    \/ message'.msg.type = "HELLO"
    \/ /\ message'.msg.type = "EXERCISE_SELECTED"
       /\ game_sessions[websockets[websocket].game_id].status = "round_end"

\* C30: a bad message received on a channel that is registered for its player
\* and can be sent on does not end the connection.  A text that is not JSON
\* is answered with ERROR, a message of an unknown type with one ECHO of the
\* message on the sender's channel and nothing else, a message whose handler
\* raises with ERROR; afterwards the endpoint is still receiving, the
\* registry is as it was, and a PING sent next is answered with PONG.
C30_BadMessage ==
    /\ [][\A websocket \in Websockets :
            (/\ call'.op = "receive_text"
             /\ call'.websocket = websocket
             /\ call'.failing = {}
             /\ IsRegistered(websocket)
             /\ BadMessage(websocket)) =>
                LET last == deliveries'[Len(deliveries')]
                IN  /\ last.msg.type = IF call'.is_dict /\ message'.msg.type = "HELLO"
                                       THEN "ECHO" ELSE "ERROR"
                    /\ last.to = OnOwnChannel(websocket)
                    /\ ~call'.is_dict => Len(deliveries') = 1
                    /\ (call'.is_dict /\ message'.msg.type = "HELLO") =>
                            /\ Len(deliveries') = 1
                            /\ last.msg.original = message'.msg
                    /\ websockets'[websocket].state = "open"
                    /\ active_connections' = active_connections]_vars
    /\ [][\A websocket \in Websockets :
            (/\ call.op = "receive_text"
             /\ call.websocket = websocket
             /\ websockets[websocket].state = "open"
             /\ IsRegistered(websocket)
             /\ call'.op = "receive_text"
             /\ call'.websocket = websocket
             /\ call'.failing = {}
             /\ call'.is_dict
             /\ message'.msg.type = "PING") =>
                /\ Len(deliveries') = 1
                /\ deliveries'[1].msg.type = "PONG"
                /\ deliveries'[1].to = OnOwnChannel(websocket)]_vars

\* Player A's handler of EXERCISE_SELECTED has just raised in round_end: A got
\* ERROR after the events of the new round, and A's endpoint is still
\* receiving and registered.
C30_Witness ==
    /\ call.op = "receive_text"
    /\ call.is_dict
    /\ message.msg.type = "EXERCISE_SELECTED"
    /\ Len(deliveries) = 4
    /\ deliveries[4].msg.type = "ERROR"
    /\ deliveries[4].to = OnOwnChannel(call.websocket)
    /\ websockets[call.websocket].state = "open"
    /\ IsRegistered(call.websocket)

\* C24: the handler of PLAYER_READY sends the PLAYER_READY event to the other
\* player connected to the game and to no channel of the sender; when the
\* signal leaves two players connected and both flagged ready, the handler
\* then sends COUNTDOWN_START with a duration of 5 seconds to both of them,
\* after the PLAYER_READY event.
C24_ReadyEvents ==
    (call.op = "receive_text" /\ call.is_dict /\ message.msg.type = "PLAYER_READY") =>
        LET game_id == message.game_id
            player_id == message.player_id
            connected == ConnectedPlayers(active_connections, game_id)
            both_ready == /\ Cardinality(connected) = 2
                          /\ \A pid \in connected : Flagged(game_id, pid)
            Sent(pid) == [player_id |-> pid,
                          websocket |-> active_connections[game_id][pid],
                          ok |-> active_connections[game_id][pid] \notin call.failing]
        IN  /\ Len(deliveries) >= 1
            /\ deliveries[1].msg.type = "PLAYER_READY"
            /\ deliveries[1].msg.playerId = player_id
            /\ deliveries[1].msg.isReady = message.msg.isReady
            /\ deliveries[1].to = {Sent(pid) : pid \in connected \ {player_id}}
            /\ \A i \in DOMAIN deliveries :
                    deliveries[i].msg.type = "PLAYER_READY" =>
                        \A s \in deliveries[i].to :
                            s.player_id # player_id /\ s.websocket # call.websocket
            /\ both_ready =>
                    /\ Len(deliveries) = 2
                    /\ deliveries[2].msg.type = "COUNTDOWN_START"
                    /\ deliveries[2].msg.durationSeconds = 5
                    /\ deliveries[2].to = {Sent(pid) : pid \in connected}

\* Both players are connected, A was ready, and B's ready signal has just
\* been handled: A got PLAYER_READY, then both got COUNTDOWN_START.
C24_Witness ==
    /\ call.op = "receive_text"
    /\ call.failing = {}
    /\ message.msg.type = "PLAYER_READY"
    /\ message.player_id = PlayerB
    /\ Len(deliveries) = 2
    /\ {s.player_id : s \in deliveries[1].to} = {PlayerA}
    /\ deliveries[2].msg.type = "COUNTDOWN_START"
    /\ {s.player_id : s \in deliveries[2].to} = Seats
    /\ \A s \in deliveries[2].to : s.ok

\* ------------------------------------------- the order of the deliveries
\* The types of the messages the calls of the handled message put on the
\* channel of a player, in the order of the calls.
TypesReceivedBy(player_id) ==
    LET put == Deliveries(broadcasts', message'.game_id, NoWebsocket, {})
        mine == SelectSeq(put, LAMBDA d : \E s \in d.to : s.player_id = player_id)
    IN  [i \in DOMAIN mine |-> mine[i].msg.type]

\* C25: the messages of one call of the game logic reach each connected
\* player in the order of the broadcasts.  A score update of a seated player
\* gives the opponent REP_INCREMENT and then GAME_STATE, and the sender
\* GAME_STATE only; a round end gives every player ROUND_END and then
\* GAME_STATE; a round start gives every player ROUND_START and then
\* GAME_STATE.
C25_DeliveryOrder ==
    [][\A player_id \in get_connected_players(message'.game_id) :
            /\ (Handled("REP_INCREMENT") /\ message'.player_id \in Seats) =>
                    TypesReceivedBy(player_id) =
                        IF player_id = message'.player_id
                        THEN <<"GAME_STATE">>
                        ELSE <<"REP_INCREMENT", "GAME_STATE">>
            /\ Handled("ROUND_END") =>
                    TypesReceivedBy(player_id) = <<"ROUND_END", "GAME_STATE">>
            /\ Handled("ROUND_START") =>
                    TypesReceivedBy(player_id) = <<"ROUND_START", "GAME_STATE">>]_vars

\* Both players are connected and player A's score update has just been
\* handled: REP_INCREMENT went out with A excluded, GAME_STATE to everybody.
C25_Witness ==
    /\ message.msg.type = "REP_INCREMENT"
    /\ message.player_id = PlayerA
    /\ get_connected_players(message.game_id) = Seats
    /\ Len(broadcasts) = 2
    /\ broadcasts[1].msg.type = "REP_INCREMENT"
    /\ Recipients(message.game_id, broadcasts[1].exclude_player) = {PlayerB}
    /\ broadcasts[2].msg.type = "GAME_STATE"
    /\ Recipients(message.game_id, broadcasts[2].exclude_player) = Seats

\* ------------------------------------------------ the match notification
\* notify_match_found raising to its caller: the send is inside try/except
\* Exception, so a send that fails is taken for a raise only when the guard
\* is left out.
notify_match_found_unguarded(player_id, send_ok) ==
    player_id \in matchmaking_websockets /\ ~send_ok

\* notify_match_found raising to its caller: the send is inside try/except
\* Exception and the else branch only logs, so nothing comes out.
notify_match_found_raises(player_id, send_ok) == FALSE

NotifyFrame ==
    UNCHANGED <<queue, lock, matching_lock, tasks, matches, ret, sweep_vars,
                game_sessions, active_connections, player_ready_status,
                message, broadcasts, websockets, deliveries, handler_vars>>

\* One call of notify_match_found from outside _try_match_and_notify.
call_notify_match_found(player_id, game_id, send_ok) ==
    /\ sent' = notify_match_found(player_id, game_id, send_ok)
    /\ call' = [op |-> "notify_match_found", player_id |-> player_id,
                game_id |-> game_id, send_ok |-> send_ok,
                registered |-> player_id \in matchmaking_websockets,
                before |-> sent,
                raised |-> notify_match_found_raises(player_id, send_ok)]
    /\ UNCHANGED matchmaking_websockets
    /\ NotifyFrame

\* _try_match_and_notify once _try_match_player has returned a match: the
\* first notify_match_found, up to the await of the second one.  When the
\* first call raises, the coroutine ends there.
try_match_and_notify_player1(player1, player2, game_id, send_ok) ==
    /\ call.op = "_try_match_and_notify" => call.pc = "done"
    /\ sent' = notify_match_found(player1, game_id, send_ok)
    /\ call' = [op |-> "_try_match_and_notify",
                pc |-> IF notify_match_found_raises(player1, send_ok)
                       THEN "done" ELSE "player2",
                player1 |-> player1, player2 |-> player2, game_id |-> game_id,
                delivered1 |-> player1 \in matchmaking_websockets /\ send_ok,
                registered |-> FALSE, send_ok |-> FALSE, before |-> sent,
                raised |-> notify_match_found_raises(player1, send_ok)]
    /\ UNCHANGED matchmaking_websockets
    /\ NotifyFrame

\* The second notify_match_found of _try_match_and_notify.
try_match_and_notify_player2(send_ok) ==
    /\ call.op = "_try_match_and_notify"
    /\ call.pc = "player2"
    /\ sent' = notify_match_found(call.player2, call.game_id, send_ok)
    /\ call' = [call EXCEPT !.pc = "done",
                            !.registered = call.player2 \in matchmaking_websockets,
                            !.send_ok = send_ok,
                            !.before = sent,
                            !.raised = notify_match_found_raises(call.player2, send_ok)]
    /\ UNCHANGED matchmaking_websockets
    /\ NotifyFrame

\* The notification called directly, with channels coming and going between
\* the calls and between the two notifications of one match.  At most
\* NumPlayers messages are delivered in one behaviour.
NotifyNext ==
    \/ \E p \in Players :
            /\ register_matchmaking_websocket(p)
            /\ UNCHANGED <<call, sweep_vars, game_sessions, active_connections,
                           player_ready_status, message, broadcasts, websockets, deliveries,
                           handler_vars>>
    \/ \E p \in Players :
            /\ unregister_matchmaking_websocket(p)
            /\ UNCHANGED <<call, sweep_vars, game_sessions, active_connections,
                           player_ready_status, message, broadcasts, websockets, deliveries,
                           handler_vars>>
    \/ \E p \in Players, send_ok \in BOOLEAN :
            /\ Len(sent) < NumPlayers
            /\ call.op = "_try_match_and_notify" => call.pc = "done"
            /\ call_notify_match_found(p, 1, send_ok)
    \/ \E player1 \in Players, player2 \in Players, send_ok \in BOOLEAN :
            /\ player1 # player2
            /\ Len(sent) < NumPlayers
            /\ try_match_and_notify_player1(player1, player2, 1, send_ok)
    \/ \E send_ok \in BOOLEAN :
            /\ Len(sent) < NumPlayers
            /\ try_match_and_notify_player2(send_ok)

NotifySpec == Init /\ [][NotifyNext]_vars

\* C31: a call of notify_match_found delivers exactly one MATCH_FOUND, to the
\* player it is called for, when the player has a registered channel and the
\* send goes through, and nothing otherwise (no channel: nothing is sent;
\* broken channel: nothing is delivered); it never raises; and after the
\* first notification of a match, delivered or not, the second one is made.
C31_NotifyBestEffort ==
    /\ call.op = "notify_match_found" =>
            /\ ~call.raised
            /\ sent = IF call.registered /\ call.send_ok
                      THEN Append(call.before, [type |-> "MATCH_FOUND",
                                                to |-> call.player_id,
                                                game_id |-> call.game_id])
                      ELSE call.before
    /\ call.op = "_try_match_and_notify" =>
            /\ ~call.raised
            /\ call.pc = "player2" =>
                    sent = IF call.delivered1
                           THEN Append(call.before, [type |-> "MATCH_FOUND",
                                                     to |-> call.player1,
                                                     game_id |-> call.game_id])
                           ELSE call.before
            /\ call.pc = "done" =>
                    sent = IF call.registered /\ call.send_ok
                           THEN Append(call.before, [type |-> "MATCH_FOUND",
                                                     to |-> call.player2,
                                                     game_id |-> call.game_id])
                           ELSE call.before

\* The first notification of a match was not delivered and the second one
\* has just been delivered to the second player.
C31_Witness ==
    /\ call.op = "_try_match_and_notify"
    /\ call.pc = "done"
    /\ ~call.delivered1
    /\ call.registered /\ call.send_ok
    /\ sent = <<[type |-> "MATCH_FOUND", to |-> call.player2, game_id |-> call.game_id]>>

\* ------------------------------------------------ the attempt that finds
\* ------------------------------------------------ nothing to match
\* Task t goes through both locks in this step: it was in the polling loop or
\* waiting for a lock, and it is now past the two checks of
\* _try_match_player.
AcquiresLocks(t) ==
    /\ tasks[t].pc \in {"poll", "matching_lock", "lock"}
    /\ tasks'[t].pc \notin {"poll", "matching_lock", "lock"}

C33_OneWinPerRound ==
    \A g \in DOMAIN game_sessions :
        /\ game_sessions[g].player_a_rounds_won + game_sessions[g].player_b_rounds_won
                <= game_sessions[g].current_round
        /\ game_sessions[g].player_a_rounds_won <= 2
        /\ game_sessions[g].player_b_rounds_won <= 2

\* ------------------------------------------------- the ready phase's scope
\* The message handled before this one began a ready phase: a round start,
\* or the selection of an exercise that exists.
BeganReadyPhase ==
    \/ message.msg.type = "ROUND_START"
    \/ message.msg.type = "EXERCISE_SELECTED" /\ message.msg.exerciseId \in Exercises

\* C34 (as claimed): COUNTDOWN_START is broadcast only when both players have
\* sent PLAYER_READY with isReady=true since the most recent exercise
\* selection or round start.  The first ready signal handled after a
\* selection or a round start is one player's only, so it never starts the
\* countdown: a flag left from before does not count.
C34_ReadySinceSelection ==
    [][(BeganReadyPhase /\ Handled("PLAYER_READY")) =>
            BroadcastsOf("COUNTDOWN_START") = {}]_vars

\* C36 (as claimed): within one ready phase COUNTDOWN_START is broadcast at
\* most once.  A PLAYER_READY handled right after the PLAYER_READY that
\* started the countdown, no exercise selected in between, does not start it
\* again.
C36_CountdownOnce ==
    [][(/\ message.msg.type = "PLAYER_READY"
        /\ \E i \in DOMAIN broadcasts : broadcasts[i].msg.type = "COUNTDOWN_START"
        /\ Handled("PLAYER_READY"))
       => BroadcastsOf("COUNTDOWN_START") = {}]_vars

\* --------------------------------------------- the reconnecting player
\* C39 (as claimed): when the endpoint of a connection that went away runs
\* its disconnect, a channel of another connection that is open and
\* registered at that moment stays registered: a player who has reconnected
\* is not unregistered by the old connection's handler.
C39_ReconnectStaysRegistered ==
    [][\A old \in Websockets, websocket \in Websockets :
            (/\ old # websocket
             /\ websockets[old].state = "open"
             /\ websockets'[old].state = "disconnected"
             /\ websockets[websocket].state = "open"
             /\ IsRegistered(websocket))
            => IsRegistered(websocket)']_vars

\* ---------------------------------------- matched before the channel is up
\* The polling loop of the player's latest join is still running: the task
\* is in its sleep, the cap is not reached and no channel has been seen.
StillPolling(p) ==
    \E t \in DOMAIN tasks :
        /\ tasks[t].player_id = p
        /\ \A u \in DOMAIN tasks : tasks[u].player_id = p => u <= t
        /\ tasks[t].pc = "poll"
        /\ tasks[t].waited < MaxPolls

\* C40 (as claimed): a match is created only when each of its two players
\* has a registered matchmaking channel or has exhausted the polling cap of
\* its own wait: no player is matched, without a channel, while the player's
\* own wait-for-channel poll is still running.
C40_MatchedWhenReachable ==
    [][Len(matches') > Len(matches) =>
            LET game_session == matches'[Len(matches')]
            IN  \A p \in {game_session.player_a_id, game_session.player_b_id} :
                    p \in matchmaking_websockets \/ ~StillPolling(p)]_vars

\* ---------------------------------------------- a broadcast, send by send
\* broadcast_to_game iterates self.active_connections[game_id].items(), the
\* live dict, and awaits a send inside the loop: while it is suspended other
\* coroutines run and may change the dict.  entries[game_id] is the dict
\* object of the game: which object it is (the number of the channel whose
\* connect created it) and its keys in insertion order, a deleted key leaving
\* a NoPlayer slot behind.  (CPython packs the slots only when a dict with
\* more than five of them grows; no behaviour below gets there.)
LiveKeys(keys) == SelectSeq(keys, LAMBDA k : k # NoPlayer)

\* self.active_connections[game_id][player_id] = websocket, creating the
\* game's dict first when there is none: a new key goes to the end, a key
\* that is present keeps its slot.
EntriesAfterConnect(websocket, game_id, player_id) ==
    IF game_id \notin DOMAIN entries
    THEN DictSet(entries, game_id, [dict |-> websocket, keys |-> <<player_id>>])
    ELSE IF \E i \in DOMAIN entries[game_id].keys : entries[game_id].keys[i] = player_id
    THEN entries
    ELSE [entries EXCEPT ![game_id].keys = Append(@, player_id)]

\* del self.active_connections[game_id][player_id], and the game's dict with
\* it once it is empty.
EntriesAfterDisconnect(game_id, player_id) ==
    IF game_id \notin DOMAIN entries
    THEN entries
    ELSE LET keys == [i \in DOMAIN entries[game_id].keys |->
                        IF entries[game_id].keys[i] = player_id
                        THEN NoPlayer ELSE entries[game_id].keys[i]]
         IN  IF LiveKeys(keys) = << >>
             THEN DictDel(entries, game_id)
             ELSE [entries EXCEPT ![game_id].keys = keys]

\* No iteration is going on.
NoIterator == [dict |-> NoWebsocket, used |-> 0, pos |-> 0, len |-> 0]

\* iter(d.items()): the iterator remembers the dict, its size, where it is,
\* and how many items are still to come.
NewIterator(game_id) ==
    [dict |-> entries[game_id].dict,
     used |-> Len(LiveKeys(entries[game_id].keys)),
     pos |-> 1,
     len |-> Len(LiveKeys(entries[game_id].keys))]

\* next() on the iterator, with the dict as it is now.  A dict whose size is
\* not the remembered one raises RuntimeError (dictionary changed size during
\* iteration), and so does an item found after all the remembered ones were
\* given out (dictionary keys changed during iteration).  A game's dict that
\* was deleted from active_connections had been emptied before.
IterNext(it, game_id) ==
    LET keys == IF game_id \in DOMAIN entries /\ entries[game_id].dict = it.dict
                THEN entries[game_id].keys ELSE << >>
        rest == {i \in DOMAIN keys : i >= it.pos /\ keys[i] # NoPlayer}
        i == CHOOSE i \in rest : \A j \in rest : i <= j
    IN  IF it.used # Len(LiveKeys(keys))
        THEN [kind |-> "raise", key |-> NoPlayer, it |-> it]
        ELSE IF rest = {}
        THEN [kind |-> "exhausted", key |-> NoPlayer, it |-> it]
        ELSE IF it.len = 0
        THEN [kind |-> "raise", key |-> NoPlayer, it |-> it]
        ELSE [kind |-> "yield", key |-> keys[i],
              it |-> [it EXCEPT !.pos = i + 1, !.len = it.len - 1]]

\* A coroutine that is not running.
Idle == [pc |-> "idle", calls |-> << >>, it |-> NoIterator, to |-> NoPlayer,
         msg |-> [type |-> "none"], reset |-> FALSE]

\* A coroutine runs from where it is to the next await that suspends it, or
\* to its end.  calls are the calls it still has to make, the first one being
\* the one it is in, and it is the iterator of that call when the call is a
\* broadcast that has begun.  The result says where the coroutine stops:
\*   send    suspended in send_json of msg to player `to`, on the channel the
\*           registry has for that player
\*   await   suspended in an await that sends nothing
\*   idle    the calls are all made
\*   raised  RuntimeError came out of the broadcast
\* and whether reset_player_ready_status was called on the way.
RECURSIVE Run(_, _, _, _)
Run(calls, it, game_id, reset) ==
    IF calls = << >>
    THEN [Idle EXCEPT !.reset = reset]
    ELSE LET c == Head(calls)
         IN  CASE c.call = "broadcast_to_game" ->
                    IF it = NoIterator
                    THEN IF game_id \in DOMAIN active_connections
                         THEN Run(calls, NewIterator(game_id), game_id, reset)
                         ELSE Run(Tail(calls), NoIterator, game_id, reset)
                    ELSE LET r == IterNext(it, game_id)
                         IN (CASE r.kind = "raise" ->
                                    [pc |-> "raised", calls |-> calls, it |-> NoIterator,
                                     to |-> NoPlayer, msg |-> c.msg, reset |-> reset]
                               [] r.kind = "exhausted" ->
                                    Run(Tail(calls), NoIterator, game_id, reset)
                               [] r.kind = "yield" ->
                                    IF r.key = c.exclude_player
                                    THEN Run(calls, r.it, game_id, reset)
                                    ELSE [pc |-> "send", calls |-> calls, it |-> r.it,
                                          to |-> r.key, msg |-> c.msg, reset |-> reset])
               [] c.call = "send_personal_message" ->
                    IF c.player_id \in get_connected_players(game_id)
                    THEN [pc |-> "send", calls |-> Tail(calls), it |-> NoIterator,
                          to |-> c.player_id, msg |-> c.msg, reset |-> reset]
                    ELSE Run(Tail(calls), NoIterator, game_id, reset)
               [] c.call = "generate_form_rules" ->
                    [pc |-> "await", calls |-> Tail(calls), it |-> NoIterator,
                     to |-> NoPlayer, msg |-> [type |-> "none"], reset |-> reset]
               [] c.call = "reset_player_ready_status" ->
                    Run(Tail(calls), NoIterator, game_id, TRUE)

\* -------------------------- one broadcast while players come and go
\* The caller of the broadcast is no endpoint of a player.
Caller == NoPlayer

BroadcastFrame ==
    UNCHANGED <<queue_vars, sweep_vars, game_sessions, player_ready_status, message,
                broadcasts, call, deliveries, inbox>>

\* await manager.connect(websocket, game_id, player_id) with a new channel.
connect(game_id, player_id) ==
    LET websocket == Len(websockets) + 1
    IN  /\ Len(websockets) < MaxWebsockets
        /\ websockets' = Append(websockets, [game_id |-> game_id, player_id |-> player_id,
                                             state |-> "open"])
        /\ active_connections' = ConnectedAfter(websocket, game_id, player_id)
        /\ entries' = EntriesAfterConnect(websocket, game_id, player_id)
        /\ handlers' = [handlers EXCEPT ![Caller].changed = @ \/ handlers[Caller].pc = "send"]
        /\ BroadcastFrame

\* manager.disconnect(game_id, player_id) for a player who is registered.
disconnect(game_id, player_id) ==
    /\ player_id \in get_connected_players(game_id)
    /\ active_connections' = DisconnectedAfter(game_id, player_id)
    /\ entries' = EntriesAfterDisconnect(game_id, player_id)
    /\ handlers' = [handlers EXCEPT ![Caller].stayed = @ \ {player_id},
                                    ![Caller].changed = @ \/ handlers[Caller].pc = "send"]
    /\ UNCHANGED websockets
    /\ BroadcastFrame

\* One run of the coroutine that called broadcast_to_game: up to the send it
\* is suspended in next, to the return, or to the RuntimeError.  ok is
\* whether the send goes through; a send that fails raises when the
\* coroutine is resumed, inside the try of the loop.  The record keeps what
\* the call was made with, the players registered ever since it began, whether
\* the registry was changed while it was suspended, and the sends attempted.
RunBroadcast(calls, it, game_id, ok, h) ==
    LET stop == Run(calls, it, game_id, FALSE)
    IN  /\ handlers' =
              [handlers EXCEPT ![Caller] =
                  [pc |-> IF stop.pc = "idle" THEN "returned" ELSE stop.pc,
                   calls |-> stop.calls, it |-> stop.it, to |-> stop.to,
                   exclude_player |-> h.exclude_player,
                   stayed |-> h.stayed,
                   changed |-> h.changed,
                   attempts |-> IF stop.pc = "send"
                                THEN h.attempts \cup
                                        {[player_id |-> stop.to,
                                          websocket |-> active_connections[game_id][stop.to],
                                          ok |-> ok]}
                                ELSE h.attempts]]
        /\ UNCHANGED <<active_connections, websockets, entries>>
        /\ BroadcastFrame

\* await manager.broadcast_to_game(msg, game_id, exclude_player), from the
\* call to its first suspension.
begin_broadcast(game_id, exclude_player, ok) ==
    /\ handlers[Caller].pc \in {"idle", "returned", "raised"}
    /\ RunBroadcast(<< broadcast_to_game([type |-> "HELLO"], exclude_player) >>, NoIterator,
                    game_id, ok,
                    [exclude_player |-> exclude_player,
                     stayed |-> get_connected_players(game_id),
                     changed |-> FALSE,
                     attempts |-> {}])

\* The send the broadcast was suspended in is over, with or without an
\* exception: the loop goes on.
resume_broadcast(game_id, ok) ==
    /\ handlers[Caller].pc = "send"
    /\ RunBroadcast(handlers[Caller].calls, handlers[Caller].it, game_id, ok, handlers[Caller])

BroadcastInit ==
    /\ queue = << >>
    /\ matchmaking_websockets = {}
    /\ lock = Free
    /\ matching_lock = Free
    /\ tasks = << >>
    /\ matches = << >>
    /\ sent = << >>
    /\ ret = [op |-> "none"]
    /\ expired = 0
    /\ sweep = [pc |-> "sleep", stale_players |-> << >>]
    /\ game_sessions = << GameSessionRow(PlayerA, PlayerB, NoExercise) >>
    /\ active_connections = << >>
    /\ player_ready_status = << >>
    /\ message = NoMessage
    /\ broadcasts = << >>
    /\ websockets = << >>
    /\ call = [op |-> "none"]
    /\ deliveries = << >>
    /\ handlers = (Caller :> [pc |-> "idle", calls |-> << >>, it |-> NoIterator,
                               to |-> NoPlayer, exclude_player |-> NoPlayer, stayed |-> {},
                               changed |-> FALSE, attempts |-> {}])
    /\ inbox = << >>
    /\ entries = << >>

BroadcastNext ==
    \/ \E player_id \in Seats : connect(1, player_id)
    \/ \E player_id \in Seats : disconnect(1, player_id)
    \/ \E exclude_player \in {NoPlayer} \cup Seats, ok \in BOOLEAN :
            begin_broadcast(1, exclude_player, ok)
    \/ \E ok \in BOOLEAN : resume_broadcast(1, ok)

BroadcastSpec == BroadcastInit /\ [][BroadcastNext]_vars

\* C38 (as claimed): a broadcast during which players of the game connect or
\* disconnect never raises to its caller, and when it returns it has
\* attempted a send to every player, other than the excluded one, who was
\* registered from its beginning to its end.
C38_BroadcastSurvivesChanges ==
    /\ handlers[Caller].pc # "raised"
    /\ handlers[Caller].pc = "returned" =>
            \A player_id \in handlers[Caller].stayed \ {handlers[Caller].exclude_player} :
                \E a \in handlers[Caller].attempts : a.player_id = player_id

\* ------------------------------------- the two endpoints, send by send
\* The endpoints of the two players of one game run on the same event loop:
\* each handles its player's messages one after the other, and is suspended
\* in every send of every broadcast it makes, and in the call of the form
\* rule service, while the other endpoint runs.  Both players stay connected.
\* The match never comes to round_end here, so EXERCISE_SELECTED always takes
\* its first-round branch.

\* The row a message's handler commits before its first await.
CommittedRow(msg, game_session, player_id) ==
    CASE msg.type = "REP_INCREMENT" -> RepIncrementRow(game_session, player_id, msg.repCount)
      [] msg.type = "EXERCISE_SELECTED" -> ExerciseSelectedRow(game_session, msg.exerciseId)
      [] OTHER -> game_session

\* The ready flags after the part of the handler that runs before its first
\* send: set_player_ready has no await in it.
ReadyBeforeFirstSend(msg, game_id, player_id) ==
    IF msg.type = "PLAYER_READY"
    THEN ReadyAfterSet(game_id, player_id, msg.isReady)
    ELSE player_ready_status

\* The calls a message's handler makes after its commit, in order; the
\* snapshot it broadcasts is the row as it was refreshed after that commit.
CallsOf(msg, game_id, player_id) ==
    LET game_session == CommittedRow(msg, game_sessions[game_id], player_id)
    IN  CASE msg.type = "REP_INCREMENT" ->
                << broadcast_to_game([type |-> "REP_INCREMENT", playerId |-> player_id,
                                      repCount |-> msg.repCount], player_id),
                   broadcast_game_state(game_session, game_id) >>
          [] msg.type = "EXERCISE_SELECTED" ->
                << broadcast_to_game(GameStateMessage(game_session, game_id), NoPlayer),
                   [call |-> "generate_form_rules"],
                   broadcast_to_game([type |-> "FORM_RULES", exercise_id |-> msg.exerciseId],
                                     NoPlayer),
                   broadcast_to_game([type |-> "READY_PHASE_START", durationSeconds |-> 10],
                                     NoPlayer),
                   [call |-> "reset_player_ready_status"] >>
          [] msg.type = "PLAYER_READY" ->
                << broadcast_to_game([type |-> "PLAYER_READY", playerId |-> player_id,
                                      isReady |-> msg.isReady], player_id) >>
                \o (IF set_player_ready_returns(game_id, player_id, msg.isReady)
                    THEN << broadcast_to_game([type |-> "COUNTDOWN_START",
                                               durationSeconds |-> 5], NoPlayer) >>
                    ELSE << >>)

\* What a client has seen and done: the snapshot it was sent last, and, for
\* the ready phase of the latest exercise selection, whether it was sent
\* READY_PHASE_START, whether it has answered that with PLAYER_READY
\* isReady=true (and not taken it back), and whether it was sent
\* COUNTDOWN_START.
NoSnapshot == [type |-> "none"]

NewClient ==
    [game_state |-> NoSnapshot, ready_phase |-> FALSE, sent_ready |-> FALSE,
     countdown |-> FALSE]

\* The clients after player_id has sent msg.
AfterSending(clients, msg, player_id) ==
    CASE msg.type = "EXERCISE_SELECTED" ->
            [p \in DOMAIN clients |->
                [clients[p] EXCEPT !.ready_phase = FALSE, !.sent_ready = FALSE,
                                   !.countdown = FALSE]]
      [] msg.type = "PLAYER_READY" ->
            [clients EXCEPT ![player_id].sent_ready = msg.isReady /\ clients[player_id].ready_phase]
      [] OTHER -> clients

\* The clients after the coroutine has stopped at stop: a send puts its
\* message on the channel of the player it is for.
AfterDelivery(clients, stop) ==
    IF stop.pc # "send"
    THEN clients
    ELSE CASE stop.msg.type = "GAME_STATE" ->
                [clients EXCEPT ![stop.to].game_state = stop.msg]
           [] stop.msg.type = "READY_PHASE_START" ->
                [clients EXCEPT ![stop.to].ready_phase = TRUE]
           [] stop.msg.type = "COUNTDOWN_START" ->
                [clients EXCEPT ![stop.to].countdown = TRUE]
           [] OTHER -> clients

HandlerFrame ==
    UNCHANGED <<queue_vars, sweep_vars, active_connections, message, broadcasts,
                channel_vars, entries>>

\* receive_text returns msg to the endpoint of player_id, which handles it up
\* to the first await that suspends it.
receive(game_id, player_id, msg) ==
    LET stop == Run(CallsOf(msg, game_id, player_id), NoIterator, game_id, FALSE)
    IN  /\ handlers[player_id].pc = "idle"
        /\ game_sessions' = [game_sessions EXCEPT ![game_id] =
                                CommittedRow(msg, game_sessions[game_id], player_id)]
        /\ player_ready_status' = ReadyBeforeFirstSend(msg, game_id, player_id)
        /\ handlers' = [handlers EXCEPT ![player_id] = [stop EXCEPT !.reset = FALSE]]
        /\ inbox' = AfterDelivery(AfterSending(inbox, msg, player_id), stop)
        /\ HandlerFrame

\* The await the endpoint of player_id is suspended in is over: the handler
\* goes on to its next await, or to its end and back to receive_text.
resume(game_id, player_id) ==
    LET stop == Run(handlers[player_id].calls, handlers[player_id].it, game_id, FALSE)
    IN  /\ handlers[player_id].pc \in {"send", "await"}
        /\ handlers' = [handlers EXCEPT ![player_id] = [stop EXCEPT !.reset = FALSE]]
        /\ player_ready_status' =
              IF stop.reset THEN ReadyAfterReset(game_id) ELSE player_ready_status
        /\ inbox' = AfterDelivery(inbox, stop)
        /\ UNCHANGED game_sessions
        /\ HandlerFrame

\* The messages the clients send while the match is in its first round.
HandlerMessages ==
    {[type |-> "REP_INCREMENT", repCount |-> rep_count] : rep_count \in 0 .. MaxReps}
        \cup {[type |-> "EXERCISE_SELECTED", exerciseId |-> exercise_id] :
                exercise_id \in Exercises}
        \cup {[type |-> "PLAYER_READY", isReady |-> is_ready] : is_ready \in BOOLEAN}

\* The match row is committed, both players have connected (player A first)
\* and both endpoints are in receive_text.
HandlerInit ==
    /\ queue = << >>
    /\ matchmaking_websockets = {}
    /\ lock = Free
    /\ matching_lock = Free
    /\ tasks = << >>
    /\ matches = << >>
    /\ sent = << >>
    /\ ret = [op |-> "none"]
    /\ expired = 0
    /\ sweep = [pc |-> "sleep", stale_players |-> << >>]
    /\ game_sessions = << GameSessionRow(PlayerA, PlayerB, NoExercise) >>
    /\ active_connections = BothConnected(1)
    /\ player_ready_status = << >>
    /\ message = NoMessage
    /\ broadcasts = << >>
    /\ websockets = << >>
    /\ call = [op |-> "none"]
    /\ deliveries = << >>
    /\ handlers = [player_id \in Seats |-> Idle]
    /\ inbox = [player_id \in Seats |-> NewClient]
    /\ entries = DictSet(<< >>, 1, [dict |-> PlayerA, keys |-> <<PlayerA, PlayerB>>])

HandlerNext ==
    \/ \E player_id \in Seats, msg \in HandlerMessages : receive(1, player_id, msg)
    \/ \E player_id \in Seats : resume(1, player_id)

HandlerSpec == HandlerInit /\ [][HandlerNext]_vars

\* The ready phase alone: an exercise is selected and the players signal that
\* they are ready, or take it back; nobody reports a score.
ReadyMessages == {msg \in HandlerMessages : msg.type # "REP_INCREMENT"}

ReadyNext ==
    \/ \E player_id \in Seats, msg \in ReadyMessages : receive(1, player_id, msg)
    \/ \E player_id \in Seats : resume(1, player_id)

\* The event loop resumes every coroutine whose await is over; the clients
\* are free to send nothing more.
FairReadySpec ==
    /\ HandlerInit /\ [][ReadyNext]_vars
    /\ \A player_id \in Seats : WF_vars(resume(1, player_id))

\* C37 (as claimed): when no handler of the game is running any more, the
\* GAME_STATE snapshot each connected player was sent last is the persisted
\* match row.
C37_LastSnapshotIsRow ==
    (\A player_id \in Seats : handlers[player_id].pc = "idle") =>
        \A player_id \in Seats :
            inbox[player_id].game_state \in
                {NoSnapshot, GameStateMessage(game_sessions[1], 1)}

\* C35 (as claimed): once each of the two players has answered the
\* READY_PHASE_START of the latest selection with PLAYER_READY isReady=true,
\* COUNTDOWN_START is eventually sent, unless one of them takes its signal
\* back or a new exercise is selected.
C35_ReadyLeadsToCountdown ==
    (\A player_id \in Seats : inbox[player_id].sent_ready)
        ~> (\/ \E player_id \in Seats : inbox[player_id].countdown
            \/ \E player_id \in Seats : ~inbox[player_id].sent_ready)

====
